---------------------------- MODULE Spec2Model ----------------------------
(***************************************************************************)
(* Carbon-credit projection engine of the calculator page                  *)
(* (src/src/pages/CarbonCalculator.tsx): the custom-expression evaluator,  *)
(* the allometric biomass function, and the calculate handler with its     *)
(* validation, schedule construction, species setup and year loop.         *)
(*                                                                         *)
(* JavaScript values are modelled as follows.                              *)
(*  - A string is a sequence of one-character strings.                     *)
(*  - A number is a record [k, v]: k is "fin", "nan", "inf" or "ninf";     *)
(*    for a finite number v is the value in thousandths (fixed point,      *)
(*    results of * and / rounded to the nearest thousandth).  Signed       *)
(*    zeros are not distinguished.                                         *)
(***************************************************************************)
EXTENDS Integers, Sequences, FiniteSets, TLC

(***************************************************************************)
(* Numbers                                                                 *)
(***************************************************************************)
Scale == 10 * 10 * 10

Fin(v) == [k |-> "fin", v |-> v]
NaN == [k |-> "nan", v |-> 0]
PosInf == [k |-> "inf", v |-> 0]
NegInf == [k |-> "ninf", v |-> 0]
Int2Num(n) == Fin(n * Scale)

isNaN(a) == a.k = "nan"
isFinite(a) == a.k = "fin"
\* JavaScript truthiness of a number: 0 and NaN are falsy.
Truthy(a) == ~(a.k = "nan" \/ (a.k = "fin" /\ a.v = 0))

\* s || d on strings, x || 0 on numbers.
OrStr(s, d) == IF s = "" THEN d ELSE s
OrZero(x) == IF Truthy(x) THEN x ELSE Fin(0)

Abs(n) == IF n < 0 THEN -n ELSE n
Sgn(n) == IF n < 0 THEN -1 ELSE IF n > 0 THEN 1 ELSE 0
\* Sign of a non-NaN number: -1, 0 or 1.
SignOf(a) == IF a.k = "inf" THEN 1 ELSE IF a.k = "ninf" THEN -1 ELSE Sgn(a.v)
InfOfSign(s) == IF s < 0 THEN NegInf ELSE PosInf

\* a * b / Scale on non-negative operands, split so that no intermediate
\* product leaves the range of a machine integer.
MulFix(a, b) ==
  LET ah == a \div Scale
      al == a % Scale
      bh == b \div Scale
      bl == b % Scale
  IN  ah * bh * Scale + ah * bl + al * bh + (al * bl + Scale \div 2) \div Scale

\* a * Scale / b on non-negative a and positive b.
DivFix(a, b) == (a \div b) * Scale + ((a % b) * Scale + b \div 2) \div b

Neg(a) ==
  CASE a.k = "fin" -> Fin(-a.v)
    [] a.k = "inf" -> NegInf
    [] a.k = "ninf" -> PosInf
    [] OTHER -> NaN

Add(a, b) ==
  CASE a.k = "nan" \/ b.k = "nan" -> NaN
    [] a.k = "fin" /\ b.k = "fin" -> Fin(a.v + b.v)
    [] a.k = "fin" -> b
    [] b.k = "fin" -> a
    [] a.k = b.k -> a
    [] OTHER -> NaN

Sub(a, b) == Add(a, Neg(b))

Mul(a, b) ==
  CASE a.k = "nan" \/ b.k = "nan" -> NaN
    [] a.k = "fin" /\ b.k = "fin" ->
         Fin(Sgn(a.v) * Sgn(b.v) * MulFix(Abs(a.v), Abs(b.v)))
    [] SignOf(a) = 0 \/ SignOf(b) = 0 -> NaN
    [] OTHER -> InfOfSign(SignOf(a) * SignOf(b))

Div(a, b) ==
  CASE a.k = "nan" \/ b.k = "nan" -> NaN
    [] a.k = "fin" /\ b.k = "fin" ->
         IF b.v = 0
           THEN IF a.v = 0 THEN NaN ELSE InfOfSign(Sgn(a.v))
           ELSE Fin(Sgn(a.v) * Sgn(b.v) * DivFix(Abs(a.v), Abs(b.v)))
    [] a.k = "fin" -> Fin(0)
    [] b.k = "fin" -> InfOfSign(SignOf(a) * (IF b.v < 0 THEN -1 ELSE 1))
    [] OTHER -> NaN

\* a < b, a <= b as JavaScript compares numbers: false when either is NaN.
Lt(a, b) ==
  /\ a.k # "nan" /\ b.k # "nan"
  /\ \/ a.k = "ninf" /\ b.k # "ninf"
     \/ b.k = "inf" /\ a.k # "inf"
     \/ a.k = "fin" /\ b.k = "fin" /\ a.v < b.v

NumEq(a, b) == a.k # "nan" /\ b.k # "nan" /\ a = b
Le(a, b) == Lt(a, b) \/ NumEq(a, b)

\* Math.max and Math.min of two numbers.
MathMax(a, b) ==
  IF a.k = "nan" \/ b.k = "nan" THEN NaN ELSE IF Lt(a, b) THEN b ELSE a
MathMin(a, b) ==
  IF a.k = "nan" \/ b.k = "nan" THEN NaN ELSE IF Lt(b, a) THEN b ELSE a

(***************************************************************************)
(* Math.exp, Math.log, Math.sqrt and Math.pow at the model's resolution    *)
(***************************************************************************)
RECURSIVE ExpSeries(_, _, _)
\* Sum of the Taylor terms of e^f from `term` (the k-1 th term) on, 0 <= f < 1.
ExpSeries(f, k, term) ==
  IF term = 0 \/ k > 12 THEN 0
  ELSE term + ExpSeries(f, k + 1, MulFix(term, f) \div k)

RECURSIVE ExpInt(_)
ExpInt(n) == IF n = 0 THEN Scale ELSE MulFix(ExpInt(n - 1), 2718)

ExpPos(x) == MulFix(ExpInt(x \div Scale), ExpSeries(x % Scale, 1, Scale))
ExpFix(x) == IF x >= 0 THEN ExpPos(x) ELSE DivFix(Scale, ExpPos(-x))

RECURSIVE LnFix(_)
\* Natural logarithm of x > 0: halve or double into [1, 2), then the series
\* 2 (z + z^3/3 + z^5/5 + z^7/7) with z = (x - 1) / (x + 1).
LnFix(x) ==
  IF x >= 2 * Scale THEN 693 + LnFix(x \div 2)
  ELSE IF x < Scale THEN LnFix(2 * x) - 693
  ELSE LET z == DivFix(x - Scale, x + Scale)
           z2 == MulFix(z, z)
           z3 == MulFix(z2, z)
           z5 == MulFix(z3, z2)
           z7 == MulFix(z5, z2)
       IN  2 * (z + z3 \div 3 + z5 \div 5 + z7 \div 7)

RECURSIVE SqrtIter(_, _, _)
SqrtIter(x, y, n) ==
  IF n = 0 \/ y = 0 THEN y ELSE SqrtIter(x, (y + DivFix(x, y)) \div 2, n - 1)
SqrtFix(x) == IF x = 0 THEN 0 ELSE SqrtIter(x, IF x > Scale THEN x ELSE Scale, 24)

MathExp(a) ==
  CASE a.k = "nan" -> NaN
    [] a.k = "inf" -> PosInf
    [] a.k = "ninf" -> Fin(0)
    [] OTHER -> Fin(ExpFix(a.v))

MathLog(a) ==
  CASE a.k = "nan" \/ a.k = "ninf" -> NaN
    [] a.k = "inf" -> PosInf
    [] a.v < 0 -> NaN
    [] a.v = 0 -> NegInf
    [] OTHER -> Fin(LnFix(a.v))

MathSqrt(a) ==
  CASE a.k = "nan" \/ a.k = "ninf" -> NaN
    [] a.k = "inf" -> PosInf
    [] a.v < 0 -> NaN
    [] OTHER -> Fin(SqrtFix(a.v))

RECURSIVE PowFrom(_, _, _)
\* acc times n factors a, multiplied one after the other from the left.
PowFrom(acc, a, n) ==
  CASE n = 0 \/ acc.k = "nan" -> acc
    [] n >= 8 ->
         PowFrom(Mul(Mul(Mul(Mul(Mul(Mul(Mul(Mul(acc, a), a), a), a), a), a), a), a),
                 a, n - 8)
    [] OTHER -> PowFrom(Mul(acc, a), a, n - 1)

\* a to a non-negative integer power n, by repeated multiplication.
PowInt(a, n) == PowFrom(Int2Num(1), a, n)

IsInteger(a) == a.k = "fin" /\ a.v % Scale = 0

MathPow(a, b) ==
  CASE b.k = "nan" -> NaN
    [] b.k = "fin" /\ b.v = 0 -> Int2Num(1)
    [] a.k = "nan" -> NaN
    [] IsInteger(b) /\ b.v > 0 -> PowInt(a, b.v \div Scale)
    [] IsInteger(b) -> Div(Int2Num(1), PowInt(a, (-b.v) \div Scale))
    [] b.k = "fin" /\ Lt(a, Fin(0)) -> NaN
    [] OTHER -> MathExp(Mul(b, MathLog(a)))

(***************************************************************************)
(* Strings                                                                 *)
(***************************************************************************)
At(s, i) == SubSeq(s, i, i)

Digits == {"0", "1", "2", "3", "4", "5", "6", "7", "8", "9"}
DigitVal(c) == CHOOSE n \in 0..9 : At("0123456789", n + 1) = c
\* The characters the regular-expression class \s and trim() treat as blank.
WhiteSpace == {" ", "\t", "\n"}
UpperLetters == "ABCDEFGHIJKLMNOPQRSTUVWXYZ"
LowerLetters == "abcdefghijklmnopqrstuvwxyz"
IsUpper(c) == \E i \in 1..26 : At(UpperLetters, i) = c
IsLower(c) == \E i \in 1..26 : At(LowerLetters, i) = c
Lower(c) ==
  IF IsUpper(c)
    THEN At(LowerLetters, CHOOSE i \in 1..26 : At(UpperLetters, i) = c)
    ELSE c
\* The class \w, whose edges are the word boundaries \b.
IsWordChar(c) == IsUpper(c) \/ IsLower(c) \/ c \in Digits \/ c = "_"

\* The first index from i on whose character is not in `set` (Len(s) + 1 if none).
SkipWhile(s, i, set) ==
  CHOOSE j \in i..(Len(s) + 1) :
    /\ \A m \in i..(j - 1) : At(s, m) \in set
    /\ j = Len(s) + 1 \/ At(s, j) \notin set

\* String.prototype.trim
trim(s) ==
  LET a == SkipWhile(s, 1, WhiteSpace)
      b == CHOOSE j \in 0..Len(s) :
             /\ \A m \in (j + 1)..Len(s) : At(s, m) \in WhiteSpace
             /\ j = 0 \/ At(s, j) \notin WhiteSpace
  IN  IF a > b THEN "" ELSE SubSeq(s, a, b)

\* Whether `pat` (lower case) occurs in s at index i, letter case ignored.
MatchAt(s, i, pat) ==
  /\ i + Len(pat) - 1 <= Len(s)
  /\ \A m \in 1..Len(pat) : Lower(At(s, i + m - 1)) = At(pat, m)

\* Whether `pat` occurs in s at index i, letter case respected.
ExactAt(s, i, pat) ==
  /\ i + Len(pat) - 1 <= Len(s)
  /\ SubSeq(s, i, i + Len(pat) - 1) = pat

ContainsCI(s, pat) == \E i \in 1..Len(s) : MatchAt(s, i, pat)

RECURSIVE DigitsValue(_, _, _)
\* The value of the decimal digits s[i..j-1].
DigitsValue(s, i, j) ==
  IF j <= i THEN 0 ELSE 10 * DigitsValue(s, i, j - 1) + DigitVal(At(s, j - 1))

RECURSIVE FracValue(_, _, _, _)
\* The value, in units of 1/Scale, of the fraction digits s[i..j-1]; digits
\* beyond the model's resolution are dropped.
FracValue(s, i, j, w) ==
  IF i >= j \/ w = 0 THEN 0
  ELSE DigitVal(At(s, i)) * w + FracValue(s, i + 1, j, w \div 10)

RECURSIVE Times10(_, _)
Times10(v, e) ==
  IF e = 0 THEN v
  ELSE IF e > 0 THEN Times10(v * 10, e - 1)
  ELSE Times10((v + 5) \div 10, e + 1)

\* The index after the fraction, if any, of a literal whose integer digits
\* end before index c; the index after its exponent part, if any, when the
\* mantissa ends before index d.
FractionEnd(s, c) ==
  IF c <= Len(s) /\ At(s, c) = "." THEN SkipWhile(s, c + 1, Digits) ELSE c
ExponentStart(s, d) ==
  IF d + 1 <= Len(s) /\ At(s, d + 1) \in {"+", "-"} THEN d + 2 ELSE d + 1
ExponentEnd(s, d) ==
  IF d <= Len(s) /\ At(s, d) \in {"e", "E"}
    THEN LET g == SkipWhile(s, ExponentStart(s, d), Digits)
         IN  IF g > ExponentStart(s, d) THEN g ELSE d
    ELSE d

RECURSIVE Decimal(_, _)
\* The longest decimal literal of s from index ix[1] on: [v, j], its value
\* (NaN when it has no digit) and the index after it.  The indices after its
\* integer digits, its fraction and its exponent are found in turn.
Decimal(s, ix) ==
  CASE Len(ix) = 1 -> Decimal(s, Append(ix, SkipWhile(s, ix[1], Digits)))
    [] Len(ix) = 2 -> Decimal(s, Append(ix, FractionEnd(s, ix[2])))
    [] Len(ix) = 3 -> Decimal(s, Append(ix, ExponentEnd(s, ix[3])))
    [] OTHER ->
         LET b == ix[1]
             c == ix[2]
             d == ix[3]
             g == ix[4]
             nDigits == (c - b) + (IF d > c THEN d - (c + 1) ELSE 0)
             mant == DigitsValue(s, b, c) * Scale
                       + FracValue(s, c + 1, d, Scale \div 10)
             eNeg == g > d /\ At(s, d + 1) = "-"
             ex == IF g > d THEN DigitsValue(s, ExponentStart(s, d), g) ELSE 0
         IN  [v |-> IF nDigits = 0 THEN NaN
                    ELSE IF ~eNeg /\ ex > 308 /\ mant > 0 THEN PosInf
                    ELSE Fin(Times10(mant, IF eNeg THEN -ex ELSE ex)),
              j |-> g]

\* The global parseFloat: blanks, a sign, then "Infinity" or the longest
\* decimal literal (digits, fraction, exponent); NaN when there is none.
parseFloat(s) ==
  LET a == SkipWhile(s, 1, WhiteSpace)
      b == IF a <= Len(s) /\ At(s, a) \in {"+", "-"} THEN a + 1 ELSE a
      signed(v) == IF a <= Len(s) /\ At(s, a) = "-" THEN Neg(v) ELSE v
  IN  signed(IF ExactAt(s, b, "Infinity") THEN PosInf ELSE Decimal(s, <<b>>).v)

\* The global parseInt with radix 10: blanks, a sign, then decimal digits.
parseInt(s) ==
  LET a == SkipWhile(s, 1, WhiteSpace)
      b == IF a <= Len(s) /\ At(s, a) \in {"+", "-"} THEN a + 1 ELSE a
      signed(v) == IF a <= Len(s) /\ At(s, a) = "-" THEN Neg(v) ELSE v
      digits(c) == IF c = b THEN NaN ELSE signed(Int2Num(DigitsValue(s, b, c)))
  IN  digits(SkipWhile(s, b, Digits))

(***************************************************************************)
(* The expressions `new Function` accepts, as far as the evaluator's       *)
(* inputs need them: numeric literals, identifiers, + - * / **, unary      *)
(* + and -, the comma operator, parentheses, calls, member access and      *)
(* `new`.  A value is a record [ty, n, name]; a parse or evaluation        *)
(* result is [ok, v, p] with ok = FALSE for a SyntaxError or a thrown      *)
(* exception and p the index of the next token.                            *)
(***************************************************************************)
\* Stops TLC if an input leaves the part of the language modelled here.
Unmodelled == CHOOSE v \in {} : TRUE

NumTok(n) == [t |-> "num", s |-> "", n |-> n]
IdTok(s) == [t |-> "id", s |-> s, n |-> NaN]
PTok(c) == [t |-> "p", s |-> c, n |-> NaN]
BadTok == [t |-> "bad", s |-> "", n |-> NaN]
EndTok == [t |-> "end", s |-> "", n |-> NaN]

IdentStart ==
  {At(UpperLetters, i) : i \in 1..26} \cup {At(LowerLetters, i) : i \in 1..26}
    \cup {"_", "$"}
IdentPart == IdentStart \cup Digits
Punct == {"+", "-", "*", "/", "(", ")", ",", "."}

RECURSIVE Tokenize(_, _)
Tokenize(s, i) ==
  IF i > Len(s) THEN << >>
  ELSE
    LET c == At(s, i)
        c2 == IF i < Len(s) THEN At(s, i + 1) ELSE ""
    IN  CASE c \in WhiteSpace -> Tokenize(s, i + 1)
          [] c \in Digits \/ (c = "." /\ c2 \in Digits) ->
               LET lit == Decimal(s, <<i>>)
               IN  IF c = "0" /\ (Lower(c2) \in {"x", "o", "b"} \/ c2 \in Digits)
                     THEN Unmodelled
                   ELSE IF lit.j <= Len(s) /\ At(s, lit.j) \in IdentPart
                     THEN <<BadTok>>
                   ELSE <<NumTok(lit.v)>> \o Tokenize(s, lit.j)
          [] c \in IdentStart ->
               LET j == SkipWhile(s, i, IdentPart)
               IN  <<IdTok(SubSeq(s, i, j - 1))>> \o Tokenize(s, j)
          [] c \in {"+", "-", "*"} /\ c2 = c ->
               <<PTok(c \o c)>> \o Tokenize(s, i + 2)
          [] c = "/" /\ c2 \in {"/", "*"} -> <<BadTok>>
          [] c \in Punct -> <<PTok(c)>> \o Tokenize(s, i + 1)
          [] OTHER -> <<BadTok>>

Tok(ts, p) == IF p <= Len(ts) THEN ts[p] ELSE EndTok
IsP(ts, p, c) == Tok(ts, p).t = "p" /\ Tok(ts, p).s = c

NumV(n) == [ty |-> "num", n |-> n, name |-> ""]
FnV(name) == [ty |-> "fn", n |-> NaN, name |-> name]
ObjV(name, n) == [ty |-> "obj", n |-> n, name |-> name]
StrV == [ty |-> "str", n |-> NaN, name |-> ""]
UndefV == [ty |-> "undef", n |-> NaN, name |-> ""]

Ok(v, p) == [ok |-> TRUE, v |-> v, p |-> p]
Throw == [ok |-> FALSE, v |-> UndefV, p |-> 0]

\* The names of the global object that can be spelled with the evaluator's
\* letters and that the model knows; Math is reached through the rewriting.
GlobalFunctions == {"Date", "close", "alert"}
MathFunctions == {"log", "exp", "sqrt", "pow", "min", "max"}

\* The value of identifier `name` inside the function: its parameter D, then
\* the global scope; a ReferenceError for any other name.
Lookup(name, D) ==
  CASE name = "D" -> Ok(NumV(D), 0)
    [] name = "Math" -> Ok(ObjV("Math", NaN), 0)
    [] name = "NaN" -> Ok(NumV(NaN), 0)
    [] name = "name" -> Ok(StrV, 0)
    [] name \in GlobalFunctions -> Ok(FnV(name), 0)
    [] OTHER -> Throw

\* ToNumber
ToNumber(v) ==
  CASE v.ty = "num" -> v.n
    [] v.ty = "obj" /\ v.name = "Date" -> v.n
    [] v.ty = "str" -> Unmodelled
    [] OTHER -> NaN

\* A binary operator applied to two values.
BinOp(op, a, b) ==
  CASE op = "+" ->
         IF a.ty \in {"str", "obj", "fn"} \/ b.ty \in {"str", "obj", "fn"}
           THEN StrV ELSE NumV(Add(ToNumber(a), ToNumber(b)))
    [] op = "-" -> NumV(Sub(ToNumber(a), ToNumber(b)))
    [] op = "*" -> NumV(Mul(ToNumber(a), ToNumber(b)))
    [] op = "/" -> NumV(Div(ToNumber(a), ToNumber(b)))
    [] op = "**" -> NumV(MathPow(ToNumber(a), ToNumber(b)))

\* Property `name` of value v: a TypeError on undefined.
Member(v, name) ==
  CASE v.ty = "undef" -> Throw
    [] v.ty = "obj" /\ v.name = "Math" /\ name \in MathFunctions ->
         Ok(FnV("Math." \o name), 0)
    [] OTHER -> Ok(UndefV, 0)

Arg(args, i) == IF i <= Len(args) THEN ToNumber(args[i]) ELSE NaN

RECURSIVE FoldArgs(_, _, _, _)
\* Math.max / Math.min over an argument list, from `acc`.
FoldArgs(which, args, i, acc) ==
  IF i > Len(args) THEN acc
  ELSE FoldArgs(which, args, i + 1,
                IF which = "max" THEN MathMax(acc, Arg(args, i))
                                 ELSE MathMin(acc, Arg(args, i)))

\* The call f(args): a TypeError when f is not a function.
Call(f, args) ==
  CASE f.ty # "fn" -> Throw
    [] f.name = "Math.log" -> Ok(NumV(MathLog(Arg(args, 1))), 0)
    [] f.name = "Math.exp" -> Ok(NumV(MathExp(Arg(args, 1))), 0)
    [] f.name = "Math.sqrt" -> Ok(NumV(MathSqrt(Arg(args, 1))), 0)
    [] f.name = "Math.pow" -> Ok(NumV(MathPow(Arg(args, 1), Arg(args, 2))), 0)
    [] f.name = "Math.max" -> Ok(NumV(FoldArgs("max", args, 1, NegInf)), 0)
    [] f.name = "Math.min" -> Ok(NumV(FoldArgs("min", args, 1, PosInf)), 0)
    [] f.name = "Date" -> Ok(StrV, 0)
    [] OTHER -> Ok(UndefV, 0)

\* new f(args): only Date is a constructor here.
Construct(f, args) ==
  CASE f.ty # "fn" \/ f.name # "Date" -> Throw
    [] Len(args) = 1 /\ args[1].ty = "num" -> Ok(ObjV("Date", args[1].n), 0)
    [] OTHER -> Unmodelled

RECURSIVE Parse(_, _, _, _, _)
\* The parser and evaluator, one case per nonterminal nt; p is the index of
\* the next token and x what the nonterminal continues from: the left operand
\* (AddRest, MulRest), the callee or object (PostRest, MemberRest) or the
\* arguments read so far (Args).
Parse(nt, ts, p, D, x) ==
  CASE nt = "Expr" ->
         \* operands of the comma operator, the last one's value
         LET r == Parse("Add", ts, p, D, x)
         IN  IF r.ok /\ IsP(ts, r.p, ",") THEN Parse("Expr", ts, r.p + 1, D, x)
             ELSE r
    [] nt = "Add" ->
         LET l == Parse("Mul", ts, p, D, x)
         IN  IF l.ok THEN Parse("AddRest", ts, l.p, D, l.v) ELSE l
    [] nt = "AddRest" ->
         IF IsP(ts, p, "+") \/ IsP(ts, p, "-")
           THEN LET r == Parse("Mul", ts, p + 1, D, x)
                IN  IF r.ok
                      THEN Parse("AddRest", ts, r.p, D, BinOp(Tok(ts, p).s, x, r.v))
                      ELSE r
           ELSE Ok(x, p)
    [] nt = "Mul" ->
         LET l == Parse("Unary", ts, p, D, x)
         IN  IF l.ok THEN Parse("MulRest", ts, l.p, D, l.v) ELSE l
    [] nt = "MulRest" ->
         IF IsP(ts, p, "*") \/ IsP(ts, p, "/")
           THEN LET r == Parse("Unary", ts, p + 1, D, x)
                IN  IF r.ok
                      THEN Parse("MulRest", ts, r.p, D, BinOp(Tok(ts, p).s, x, r.v))
                      ELSE r
           ELSE Ok(x, p)
    [] nt = "Unary" ->
         \* ExponentiationExpression: a signed operand, or base ** exponent,
         \* whose base takes no sign
         LET b == Parse("Signed", ts, p, D, x)
         IN  IF b.ok /\ IsP(ts, b.p, "**")
               THEN IF IsP(ts, p, "+") \/ IsP(ts, p, "-") THEN Throw
                    ELSE LET e == Parse("Unary", ts, b.p + 1, D, x)
                         IN  IF e.ok THEN Ok(BinOp("**", b.v, e.v), e.p) ELSE e
               ELSE b
    [] nt = "Signed" ->
         \* UnaryExpression: signs before a postfix expression
         IF IsP(ts, p, "+") \/ IsP(ts, p, "-")
           THEN LET r == Parse("Signed", ts, p + 1, D, x)
                IN  IF r.ok
                      THEN Ok(NumV(IF IsP(ts, p, "-") THEN Neg(ToNumber(r.v))
                                                      ELSE ToNumber(r.v)), r.p)
                      ELSE r
           ELSE Parse("Postfix", ts, p, D, x)
    [] nt = "Postfix" ->
         LET r == IF Tok(ts, p).t = "id" /\ Tok(ts, p).s = "new"
                    THEN Parse("New", ts, p, D, x) ELSE Parse("Primary", ts, p, D, x)
         IN  IF r.ok THEN Parse("PostRest", ts, r.p, D, r.v) ELSE r
    [] nt = "PostRest" ->
         \* calls and member accesses after a primary expression
         IF IsP(ts, p, "(")
           THEN LET a == Parse("Args", ts, p + 1, D, << >>)
                    c == Call(x, a.v)
                IN  IF a.ok /\ c.ok THEN Parse("PostRest", ts, a.p, D, c.v) ELSE Throw
         ELSE IF IsP(ts, p, ".")
           THEN LET m == Member(x, Tok(ts, p + 1).s)
                IN  IF Tok(ts, p + 1).t = "id" /\ m.ok
                      THEN Parse("PostRest", ts, p + 2, D, m.v) ELSE Throw
         ELSE Ok(x, p)
    [] nt = "Args" ->
         \* the argument list after "(": v the values, p after ")"
         IF IsP(ts, p, ")") /\ x = << >> THEN Ok(x, p + 1)
         ELSE LET r == Parse("Add", ts, p, D, x)
              IN  IF ~r.ok THEN Throw
                  ELSE IF IsP(ts, r.p, ")") THEN Ok(Append(x, r.v), r.p + 1)
                  ELSE IF IsP(ts, r.p, ",") /\ IsP(ts, r.p + 1, ")")
                    THEN Ok(Append(x, r.v), r.p + 2)
                  ELSE IF IsP(ts, r.p, ",")
                    THEN Parse("Args", ts, r.p + 1, D, Append(x, r.v))
                  ELSE Throw
    [] nt = "Primary" ->
         LET t == Tok(ts, p)
         IN  CASE t.t = "num" -> Ok(NumV(t.n), p + 1)
               [] t.t = "id" ->
                    LET r == Lookup(t.s, D) IN IF r.ok THEN Ok(r.v, p + 1) ELSE Throw
               [] t.t = "p" /\ t.s = "(" ->
                    LET r == Parse("Expr", ts, p + 1, D, x)
                    IN  IF r.ok /\ IsP(ts, r.p, ")") THEN Ok(r.v, r.p + 1) ELSE Throw
               [] OTHER -> Throw
    [] nt = "MemberRest" ->
         \* member accesses (no calls) after the constructor expression of new
         IF IsP(ts, p, ".")
           THEN LET m == Member(x, Tok(ts, p + 1).s)
                IN  IF Tok(ts, p + 1).t = "id" /\ m.ok
                      THEN Parse("MemberRest", ts, p + 2, D, m.v) ELSE Throw
           ELSE Ok(x, p)
    [] nt = "New" ->
         \* new MemberExpression Arguments, `new` being the token at p
         LET g == Parse("Primary", ts, p + 1, D, x)
             f == IF g.ok THEN Parse("MemberRest", ts, g.p, D, g.v) ELSE g
             a == IF f.ok /\ IsP(ts, f.p, "(") THEN Parse("Args", ts, f.p + 1, D, << >>)
                  ELSE Ok(<< >>, f.p)
             c == Construct(f.v, a.v)
         IN  IF f.ok /\ a.ok /\ c.ok THEN Ok(c.v, a.p) ELSE Throw

ParseExpr(ts, D) == Parse("Expr", ts, 1, D, UndefV)

\* fn(D) for fn = new Function('D', `return (${expr});`): the returned value,
\* or ok = FALSE when construction or the call throws.
RunFunction(expr, D) ==
  LET run(ts) ==
        LET whole(r) == IF ~r.ok \/ r.p # Len(ts) + 1 THEN Throw ELSE r
        IN  IF \E i \in 1..Len(ts) : ts[i].t = "bad" THEN Throw
            ELSE whole(ParseExpr(ts, D))
  IN  run(Tokenize("(" \o expr \o ")", 1))

(***************************************************************************)
(* Helpers of the calculator page                                          *)
(***************************************************************************)
\* defaultAllometryBiomassKg with what it did: ret is the returned biomass,
\* tookLn whether control reached the formula, which takes ln(D_cm).
defaultAllometry(D_cm, region) ==
  IF ~Truthy(D_cm) \/ isNaN(D_cm) \/ Le(D_cm, Fin(0))
    THEN [ret |-> Fin(0), tookLn |-> FALSE]
    ELSE [ret |-> IF region = "dry"
                    THEN MathExp(Add(Fin(-1996), Mul(Fin(2320), MathLog(D_cm))))
                    ELSE MathExp(Add(Fin(-2134), Mul(Fin(2530), MathLog(D_cm)))),
          tookLn |-> TRUE]

defaultAllometryBiomassKg(D_cm, region) == defaultAllometry(D_cm, region).ret

\* Faulty variant of kgBiomassToTonsCO2e: tonnes of carbon, not of CO2e.
kgBiomassToTonsCarbon(biomassKg) ==
  Div(Mul(biomassKg, Fin(470)), Int2Num(1000))

kgBiomassToTonsCO2e(biomassKg) ==
  Div(Mul(Mul(biomassKg, Fin(470)), Div(Int2Num(44), Int2Num(12))), Int2Num(1000))

\* Faulty variant of densityFromSpacing: no guard for a spacing that is 0,
\* negative or no number.
densityUnguarded(spacingMeters) ==
  Div(Int2Num(10000), Mul(spacingMeters, spacingMeters))

densityFromSpacing(spacingMeters) ==
  IF ~Truthy(spacingMeters) \/ Le(spacingMeters, Fin(0)) THEN Fin(0)
  ELSE Div(Int2Num(10000), Mul(spacingMeters, spacingMeters))

clamp(n, lo, hi) == MathMax(lo, MathMin(hi, n))

(***************************************************************************)
(* evalBiomassExpr                                                         *)
(***************************************************************************)
\* The letters of the class [Ddepxowlnqrtmacs], matched with the i flag.
AllowedLetters ==
  {"d", "e", "p", "x", "o", "w", "l", "n", "q", "r", "t", "m", "a", "c", "s"}

\* allowed.test(expr): every character is a digit, an operator, a parenthesis,
\* a point, a comma, a blank or one of the letters.
allowed(expr) ==
  \A i \in 1..Len(expr) :
    LET c == At(expr, i)
    IN  \/ c \in Digits
        \/ c \in {"+", "-", "*", "/", "(", ")", ".", ","}
        \/ c \in WhiteSpace
        \/ Lower(c) \in AllowedLetters

RECURSIVE ReplaceCall(_, _, _, _)
\* s.replace(/name\s*\(/gi, repl) from index i on.
ReplaceCall(s, i, name, repl) ==
  IF i > Len(s) THEN ""
  ELSE LET j == SkipWhile(s, i + Len(name), WhiteSpace)
       IN  IF MatchAt(s, i, name) /\ j <= Len(s) /\ At(s, j) = "("
             THEN repl \o ReplaceCall(s, j + 1, name, repl)
             ELSE At(s, i) \o ReplaceCall(s, i + 1, name, repl)

RECURSIVE ReplaceD(_, _)
\* s.replace(/\bD\b/g, '(D)') from index i on.
ReplaceD(s, i) ==
  IF i > Len(s) THEN ""
  ELSE IF /\ At(s, i) = "D"
          /\ i = 1 \/ ~IsWordChar(At(s, i - 1))
          /\ i = Len(s) \/ ~IsWordChar(At(s, i + 1))
         THEN "(D)" \o ReplaceD(s, i + 1)
         ELSE At(s, i) \o ReplaceD(s, i + 1)

\* Faulty variant of rewrite: ln is not mapped to Math.log.
rewriteWithoutLn(expr) ==
  ReplaceD(
    ReplaceCall(
      ReplaceCall(
        ReplaceCall(
          ReplaceCall(
            ReplaceCall(expr, 1, "exp", "Math.exp("),
            1, "sqrt", "Math.sqrt("),
          1, "pow", "Math.pow("),
        1, "min", "Math.min("),
      1, "max", "Math.max("),
    1)

\* The chain of replacements that maps the function names to Math.* and D to (D).
rewrite(expr) ==
  ReplaceD(
    ReplaceCall(
      ReplaceCall(
        ReplaceCall(
          ReplaceCall(
            ReplaceCall(
              ReplaceCall(expr, 1, "ln", "Math.log("),
              1, "exp", "Math.exp("),
            1, "sqrt", "Math.sqrt("),
          1, "pow", "Math.pow("),
        1, "min", "Math.min("),
      1, "max", "Math.max("),
    1)

\* Faulty variant of blocked: the last guard left out.
neverBlocked(expr) == FALSE

\* The last guard: /(constructor|__proto__|prototype|=>|new\s)/i.test(expr)
blocked(expr) ==
  \/ ContainsCI(expr, "constructor")
  \/ ContainsCI(expr, "__proto__")
  \/ ContainsCI(expr, "prototype")
  \/ ContainsCI(expr, "=>")
  \/ \E i \in 1..Len(expr) :
       MatchAt(expr, i, "new") /\ i + 3 <= Len(expr) /\ At(expr, i + 3) \in WhiteSpace

\* What evalBiomassExpr did: ret is the returned number, stage the return
\* statement taken, expr the text handed to new Function ("" when control
\* returned before), threw whether an exception left the function.
Returned(ret, stage, expr) ==
  [ret |-> ret, stage |-> stage, expr |-> expr, threw |-> FALSE]

\* Faulty variant of tryEvaluate: no catch clause around new Function and the
\* call, so an exception leaves evalBiomassExpr.
evaluateUncaught(D, expr) ==
  LET result(r) ==
        IF ~r.ok THEN [ret |-> NaN, stage |-> "caught", expr |-> expr, threw |-> TRUE]
        ELSE IF r.v.ty # "num" \/ ~isFinite(r.v.n) THEN Returned(NaN, "notfinite", expr)
        ELSE Returned(r.v.n, "value", expr)
  IN  result(RunFunction(expr, D))

\* The try block: the value of fn(D) when it is a finite number, else NaN;
\* the catch turns an exception into NaN, so none reaches the caller.
tryEvaluate(D, expr) ==
  LET result(r) ==
        IF ~r.ok THEN Returned(NaN, "caught", expr)
        ELSE IF r.v.ty # "num" \/ ~isFinite(r.v.n) THEN Returned(NaN, "notfinite", expr)
        ELSE Returned(r.v.n, "value", expr)
  IN  result(RunFunction(expr, D))

\* evalBiomassExpr from the blocklist on, expr being the rewritten text.
evalRewritten(D, expr) ==
  IF blocked(expr) THEN Returned(NaN, "blocked", "") ELSE tryEvaluate(D, expr)

\* evalBiomassExpr from the character whitelist on, expr being the trimmed text.
evalTrimmed(D, expr) ==
  IF ~allowed(expr) THEN Returned(NaN, "chars", "") ELSE evalRewritten(D, rewrite(expr))

evalBiomass(D, exprRaw) ==
  IF exprRaw = "" THEN Returned(NaN, "empty", "") ELSE evalTrimmed(D, trim(exprRaw))

evalBiomassExpr(D, exprRaw) == evalBiomass(D, exprRaw).ret

\* Faulty variant of eq: custom or default is decided once, by the custom
\* expression's value at the initial diameter, and kept for every call.
eqDecidedOnce(r, D) ==
  LET valid(v) == ~isNaN(v) /\ Le(Fin(0), v)
      custom(once) ==
        IF once THEN evalBiomassExpr(D, r.customEquation)
        ELSE defaultAllometryBiomassKg(D, r.region)
  IN  custom(/\ r.useCustomEq /\ r.customEquation # ""
             /\ valid(evalBiomassExpr(OrZero(parseFloat(OrStr(r.initialDbhCm, "0"))),
                                      r.customEquation)))

\* The per-species biomass function eq built by calculate for row r.
eq(r, D) ==
  LET custom(v) == IF ~isNaN(v) /\ Le(Fin(0), v) THEN <<v>> ELSE << >>
      returned(c) == IF c # << >> THEN c[1] ELSE defaultAllometryBiomassKg(D, r.region)
  IN  returned(IF r.useCustomEq /\ r.customEquation # ""
                 THEN custom(evalBiomassExpr(D, r.customEquation)) ELSE << >>)

(***************************************************************************)
(* State of the CarbonCalculator component (its useState cells), the last  *)
(* alert it raised, and the executions of the innermost loop body of the   *)
(* last calculate run.  calc is << >> for null and <<result>> otherwise.   *)
(***************************************************************************)
VARIABLES projectAreaHa, plantingYear, creditingEndYear, mortalityRate,
          considerMortality, defaultGrowthRate, forceYearZeroZero,
          useSchedule, scheduleYears, scheduleMode, constantAreaPerYear,
          customSchedule, rows, calc, alertMsg, contribs

formVars == <<projectAreaHa, plantingYear, creditingEndYear, mortalityRate,
              considerMortality, defaultGrowthRate, forceYearZeroZero,
              useSchedule, scheduleYears, scheduleMode, constantAreaPerYear,
              customSchedule, rows>>
calcVars == <<calc, alertMsg, contribs>>

RECURSIVE SumSeq(_)
\* reduce((sum, x) => sum + x, 0) over a sequence of numbers.  Addition of
\* the model's numbers is exact, so the sum is that of the left-to-right fold.
SumSeq(xs) ==
  CASE Len(xs) = 0 -> Fin(0)
    [] Len(xs) = 1 -> Add(Fin(0), xs[1])
    [] OTHER -> Add(SumSeq(SubSeq(xs, 1, Len(xs) \div 2)),
                    SumSeq(SubSeq(xs, Len(xs) \div 2 + 1, Len(xs))))

\* The number of times `for (let i = 0; i < n; i++)` runs its body.
LoopCount(n) == IF n.k = "fin" /\ n.v > 0 THEN (n.v + Scale - 1) \div Scale ELSE 0

totalPercent ==
  SumSeq([i \in 1..Len(rows) |-> OrZero(parseFloat(OrStr(rows[i].percent, "0")))])

Null == "null"

RECURSIVE rowError(_)
\* The first message of validate's loop over the rows from row i on.
rowError(i) ==
  IF i > Len(rows) THEN Null
  ELSE LET r == rows[i]
           for(msg, end) == msg \o " for \"" \o r.name \o "\"" \o end
       IN  CASE r.name = "" -> "Each species row needs a name."
             [] r.percent = "" -> for("Enter % area", ".")
             [] r.inputMode = "spacing" /\ r.spacing = "" ->
                  for("Enter spacing (m)", ".")
             [] r.inputMode = "density" /\ r.density = "" ->
                  for("Enter density (trees/ha)", ".")
             [] r.useCustomEq /\ r.customEquation = "" ->
                  for("Enter a biomass equation", " or turn off \"custom\".")
             [] OTHER -> rowError(i + 1)

\* Faulty variant of scheduleError: the schedule length is checked whether
\* or not scheduling is enabled.
scheduleCheckedAlways ==
  IF Le(clamp(parseInt(OrStr(scheduleYears, "0")), Fin(0), Int2Num(200)), Fin(0))
    THEN "Schedule years must be > 0."
    ELSE IF ~useSchedule /\ projectAreaHa = "" THEN "Enter Total Project Area (ha)."
    ELSE Null

\* Faulty variant of scheduleError: the areas of the custom rows are not
\* checked.
areasUnchecked ==
  IF useSchedule
    THEN IF Le(clamp(parseInt(OrStr(scheduleYears, "0")), Fin(0), Int2Num(200)), Fin(0))
           THEN "Schedule years must be > 0."
           ELSE IF scheduleMode = "constant" /\ constantAreaPerYear = ""
                  THEN "Enter constant area per year (ha)."
                  ELSE Null
    ELSE IF projectAreaHa = "" THEN "Enter Total Project Area (ha)." ELSE Null

\* Faulty variant of scheduleError: a schedule of no years is accepted.
zeroYearsAccepted ==
  IF useSchedule
    THEN CASE scheduleMode = "constant" /\ constantAreaPerYear = "" ->
                "Enter constant area per year (ha)."
           [] OTHER -> Null
    ELSE IF projectAreaHa = "" THEN "Enter Total Project Area (ha)." ELSE Null

scheduleError ==
  LET n == clamp(parseInt(OrStr(scheduleYears, "0")), Fin(0), Int2Num(200))
  IN  IF useSchedule
        THEN CASE Le(n, Fin(0)) -> "Schedule years must be > 0."
               [] scheduleMode = "constant" /\ constantAreaPerYear = "" ->
                    "Enter constant area per year (ha)."
               [] scheduleMode = "constant" -> Null
               [] Int2Num(Len(customSchedule)) # n ->
                    "Schedule rows did not initialize correctly."
               [] \E i \in 1..Len(customSchedule) :
                    \/ customSchedule[i].areaHa = ""
                    \/ Lt(parseFloat(customSchedule[i].areaHa), Fin(0)) ->
                    "Enter non-negative area (ha) for each schedule year."
               [] OTHER -> Null
        ELSE IF projectAreaHa = "" THEN "Enter Total Project Area (ha)." ELSE Null

py == parseInt(plantingYear)
ey == parseInt(creditingEndYear)

\* validate(): the first error message, or Null.
validate ==
  CASE plantingYear = "" -> "Enter planting year."
    [] creditingEndYear = "" -> "Enter project crediting end year."
    [] isNaN(py) \/ isNaN(ey) -> "Years must be numbers."
    [] Lt(ey, py) -> "End year must be >= planting year."
    [] Len(rows) = 0 -> "Add at least one species."
    [] Le(totalPercent, Fin(0)) -> "Species % must be > 0."
    [] Lt(Int2Num(100), totalPercent) -> "Species % sum cannot exceed 100%."
    [] rowError(1) # Null -> rowError(1)
    [] OTHER -> scheduleError

(***************************************************************************)
(* calculate, after validation                                             *)
(***************************************************************************)
nYears == Sub(ey, py)

mortFrac ==
  clamp(Div(parseFloat(OrStr(mortalityRate, "0")), Int2Num(100)), Fin(0), Int2Num(1))
\* Faulty variant of mort: the rate applied whether or not mortality is considered.
mortRegardless == mortFrac
mort == IF considerMortality = "yes" THEN mortFrac ELSE Fin(0)

defaultGR == parseFloat(OrStr(defaultGrowthRate, "0.2"))

\* customSchedule.find(r => r.year === y)?.areaHa || '0'
customAreaOf(y) ==
  LET hits == {i \in 1..Len(customSchedule) : NumEq(customSchedule[i].year, y)}
  IN  IF hits = {} THEN "0"
      ELSE OrStr(customSchedule[CHOOSE i \in hits : \A j \in hits : i <= j].areaHa, "0")

\* Faulty variant of scheduledArea: the area capped by the project area.
scheduledAreaCapped(y) ==
  MathMin(OrZero(parseFloat(OrStr(projectAreaHa, "0"))),
          IF scheduleMode = "constant"
            THEN OrZero(parseFloat(OrStr(constantAreaPerYear, "0")))
            ELSE OrZero(parseFloat(customAreaOf(y))))

\* The area of schedule year y when scheduling is enabled.
scheduledArea(y) ==
  IF scheduleMode = "constant"
    THEN OrZero(parseFloat(OrStr(constantAreaPerYear, "0")))
    ELSE OrZero(parseFloat(customAreaOf(y)))

\* Faulty variant of plantedArea: the parsed area as it is.
plantedAreaRaw(area) == area

\* areaHa of a pushed schedule entry: Math.max(0, area).
plantedArea(area) == MathMax(Fin(0), area)

\* The per-year planted-area schedule built by calculate.
scheduled ==
  IF useSchedule
    THEN LET n == clamp(parseInt(OrStr(scheduleYears, "0")), Fin(0), Int2Num(200))
         IN  [i \in 1..LoopCount(n) |->
                LET y == Add(py, Int2Num(i - 1))
                IN  [year |-> y, areaHa |-> plantedArea(scheduledArea(y))]]
    ELSE <<[year |-> py,
            areaHa |-> plantedArea(OrZero(parseFloat(OrStr(projectAreaHa, "0"))))]>>

\* The resolved growth rate of row r.
growthRate(r) ==
  LET orDefault(gr) == IF Truthy(gr) THEN gr ELSE defaultGR
  IN  orDefault(parseFloat(r.growthRateCmYr))

\* The static values calculate precomputes for row r (biomassFn is eq(r, _)).
setupOf(r) ==
  [id |-> r.id,
   name |-> OrStr(r.name, "Unnamed"),
   region |-> r.region,
   percent |-> clamp(parseFloat(OrStr(r.percent, "0")), Fin(0), Int2Num(100)),
   densityHa |-> IF r.inputMode = "density"
                   THEN MathMax(Fin(0), parseFloat(OrStr(r.density, "0")))
                   ELSE densityFromSpacing(parseFloat(OrStr(r.spacing, "0"))),
   growthRateCmYr |-> growthRate(r),
   initialDbhCm |-> OrZero(parseFloat(OrStr(r.initialDbhCm, "0")))]

speciesSetup == [i \in 1..Len(rows) |-> setupOf(rows[i])]

\* Faulty variant of notPlantedYet: no cohort is skipped.
neverSkipped(sch, g) == FALSE

\* Whether the cohort of schedule entry sch is skipped in model year g.
notPlantedYet(sch, g) == Lt(g, Sub(sch.year, py))

\* DBH of species sp at cohort age, with the year-zero override.
dbhAt(sp, cohortAge) ==
  IF forceYearZeroZero /\ NumEq(cohortAge, Fin(0)) THEN Fin(0)
  ELSE Add(sp.initialDbhCm, Mul(sp.growthRateCmYr, cohortAge))

\* Faulty variant of cohortBiomassKg: no year-zero override.
unforcedBiomassKg(biomassPerTreeKg, surviving, cohortAge) ==
  Mul(biomassPerTreeKg, surviving)

\* Biomass of the cohort's trees of one species, with the year-zero override.
cohortBiomassKg(biomassPerTreeKg, surviving, cohortAge) ==
  IF forceYearZeroZero /\ NumEq(cohortAge, Fin(0)) THEN Fin(0)
  ELSE Mul(biomassPerTreeKg, surviving)

\* surviving trees of species sp in the cohort of sch at cohortAge.
survivingOf(sp, sch, cohortAge) ==
  LET areaForSpeciesHa == Mul(Div(sp.percent, Int2Num(100)), sch.areaHa)
      initialTrees == Mul(areaForSpeciesHa, sp.densityHa)
  IN  Mul(initialTrees, MathPow(Sub(Int2Num(1), mort), cohortAge))

\* What one execution of the innermost loop body adds, given the values its
\* statements computed.
contribution(g, j, idx, sch, cohortAge, surviving, dbh, biomassPerTreeKg) ==
  LET speciesBiomassKg == cohortBiomassKg(biomassPerTreeKg, surviving, cohortAge)
  IN  [g |-> g, year |-> Add(py, g), schYear |-> sch.year, j |-> j, idx |-> idx,
       cohortAge |-> cohortAge, surviving |-> surviving, dbh |-> dbh,
       biomassPerTreeKg |-> biomassPerTreeKg, biomassKg |-> speciesBiomassKg,
       credits |-> kgBiomassToTonsCO2e(speciesBiomassKg)]

\* One execution of the innermost loop body: model year g (a number),
\* schedule entry j, species idx.
bodyOf(g, j, idx) ==
  LET sch == scheduled[j]
      sp == speciesSetup[idx]
      cohortAge == Sub(g, Sub(sch.year, py))
      dbh == dbhAt(sp, cohortAge)
  IN  contribution(g, j, idx, sch, cohortAge, survivingOf(sp, sch, cohortAge), dbh,
                   eq(rows[idx], dbh))

\* The executions of the innermost loop body in model year g, in order:
\* the schedule entries outermost, the species innermost.
bodiesOf(g) ==
  LET R == Len(rows)
      all == [k \in 1..(Len(scheduled) * R) |-> <<((k - 1) \div R) + 1, ((k - 1) % R) + 1>>]
      runs(jk) == /\ ~notPlantedYet(scheduled[jk[1]], g)
                  /\ ~Le(speciesSetup[jk[2]].percent, Fin(0))
      kept == SelectSeq(all, runs)
  IN  [k \in 1..Len(kept) |-> bodyOf(g, kept[k][1], kept[k][2])]

\* Faulty variant of reportedDbh: the diameter of the first cohort processed.
firstCohortDbh(ks) == IF ks = << >> THEN Fin(0) ELSE ks[1].dbh

\* perSpeciesAgg[idx].dbhCm after the loop-body executions ks of one species:
\* 0 initially, assigned (not accumulated) by every execution.
reportedDbh(ks) == IF ks = << >> THEN Fin(0) ELSE ks[Len(ks)].dbh

\* Faulty variant of yearRecord: the year's totals count the first species
\* row only.
yearRecordFirstRow(g, bs) ==
  LET field(f, sel(_)) ==
        LET ks == SelectSeq(bs, sel) IN SumSeq([k \in 1..Len(ks) |-> ks[k][f]])
      first(b) == b.idx = 1
      perSpeciesAgg(idx) ==
        LET mine(b) == b.idx = idx
            ks == SelectSeq(bs, mine)
        IN  [speciesId |-> speciesSetup[idx].id,
             name |-> speciesSetup[idx].name,
             credits |-> field("credits", mine),
             biomassKg |-> field("biomassKg", mine),
             survivingTrees |-> field("surviving", mine),
             dbhCm |-> reportedDbh(ks)]
  IN  [year |-> Add(py, g),
       credits |-> field("credits", first),
       biomassKg |-> field("biomassKg", first),
       survivingTrees |-> field("surviving", first),
       perSpecies |-> [idx \in 1..Len(rows) |-> perSpeciesAgg(idx)]]

\* The YearRecord pushed for model year g, from the loop-body executions bs.
yearRecord(g, bs) ==
  LET field(f, sel(_)) ==
        LET ks == SelectSeq(bs, sel) IN SumSeq([k \in 1..Len(ks) |-> ks[k][f]])
      any(b) == TRUE
      perSpeciesAgg(idx) ==
        LET mine(b) == b.idx = idx
            ks == SelectSeq(bs, mine)
        IN  [speciesId |-> speciesSetup[idx].id,
             name |-> speciesSetup[idx].name,
             credits |-> field("credits", mine),
             biomassKg |-> field("biomassKg", mine),
             survivingTrees |-> field("surviving", mine),
             dbhCm |-> reportedDbh(ks)]
  IN  [year |-> Add(py, g),
       credits |-> field("credits", any),
       biomassKg |-> field("biomassKg", any),
       survivingTrees |-> field("surviving", any),
       perSpecies |-> [idx \in 1..Len(rows) |-> perSpeciesAgg(idx)]]

\* Faulty variant of modelYears: the loop `for (g = 0; g < nYears; g++)`.
modelYearsExclusive == [i \in 1..LoopCount(nYears) |-> Int2Num(i - 1)]

\* The upper limit of the clamp of yearsSpan.
SpanLimit == 300

\* yearsSpan, the span shown as "Years modeled".
yearsSpan ==
  clamp(Sub(parseInt(OrStr(creditingEndYear, "0")), parseInt(OrStr(plantingYear, "0"))),
        Fin(0), Int2Num(SpanLimit))

\* The model years the loop `for (g = 0; g <= nYears; g++)` visits.
modelYears == [i \in 1..LoopCount(Add(nYears, Int2Num(1))) |-> Int2Num(i - 1)]

yearly == [i \in 1..Len(modelYears) |-> yearRecord(modelYears[i], bodiesOf(modelYears[i]))]

\* Faulty variant of speciesCredits: the first species' credits whatever the id.
firstSpeciesCredits(d, id) == d.perSpecies[1].credits

\* d.perSpecies.find(p => p.speciesId === id): its credits, 0 if none.
speciesCredits(d, id) ==
  LET hits == {k \in 1..Len(d.perSpecies) : d.perSpecies[k].speciesId = id}
  IN  IF hits = {} THEN Fin(0)
      ELSE d.perSpecies[CHOOSE k \in hits : \A m \in hits : k <= m].credits

\* Faulty variant of resultOf: the total carried over from the result of the
\* run before.
resultAccumulated(ys) ==
  [totalCredits |->
     Add(IF calc = << >> THEN Fin(0) ELSE calc[1].totalCredits,
         SumSeq([i \in 1..Len(ys) |-> ys[i].credits])),
   yearlyBreakdown |-> ys,
   speciesSummary |->
     [idx \in 1..Len(rows) |->
        [speciesId |-> speciesSetup[idx].id,
         name |-> speciesSetup[idx].name,
         totalCredits |->
           SumSeq([i \in 1..Len(ys) |-> speciesCredits(ys[i], speciesSetup[idx].id)])]]]

\* The CalcResult for the list of YearRecords ys.
resultOf(ys) ==
  [totalCredits |-> SumSeq([i \in 1..Len(ys) |-> ys[i].credits]),
   yearlyBreakdown |-> ys,
   speciesSummary |->
     [idx \in 1..Len(rows) |->
        [speciesId |-> speciesSetup[idx].id,
         name |-> speciesSetup[idx].name,
         totalCredits |->
           SumSeq([i \in 1..Len(ys) |-> speciesCredits(ys[i], speciesSetup[idx].id)])]]]

RECURSIVE Flatten(_)
Flatten(ss) ==
  CASE Len(ss) = 0 -> << >>
    [] Len(ss) = 1 -> ss[1]
    [] OTHER -> Flatten(SubSeq(ss, 1, Len(ss) \div 2))
                  \o Flatten(SubSeq(ss, Len(ss) \div 2 + 1, Len(ss)))

\* Faulty variant of calculate: a rejected run clears the stored result.
calculateClearing ==
  /\ UNCHANGED formVars
  /\ IF validate # Null
       THEN /\ alertMsg' = validate
            /\ calc' = << >>
            /\ contribs' = << >>
       ELSE /\ calc' = <<resultOf(yearly)>>
            /\ contribs' = Flatten([i \in 1..Len(modelYears) |-> bodiesOf(modelYears[i])])
            /\ UNCHANGED alertMsg

\* The calculate handler: validation, then the whole computation.
calculate ==
  /\ UNCHANGED formVars
  /\ IF validate # Null
       THEN /\ alertMsg' = validate
            /\ UNCHANGED <<calc, contribs>>
       ELSE /\ calc' = <<resultOf(yearly)>>
            /\ contribs' = Flatten([i \in 1..Len(modelYears) |-> bodiesOf(modelYears[i])])
            /\ UNCHANGED alertMsg

(***************************************************************************)
(* The calculator: form states the page can be brought to, then calculate  *)
(***************************************************************************)
MaxSpan == 2
MaxSchedule == 3
MaxSpecies == 2

Row(region, percent, inputMode, spacing, density, growth, dbh0, custom, equation) ==
  [id |-> "", name |-> "T", region |-> region, percent |-> percent,
   inputMode |-> inputMode, spacing |-> spacing, density |-> density,
   growthRateCmYr |-> growth, initialDbhCm |-> dbh0,
   useCustomEq |-> custom, customEquation |-> equation]

\* Species rows as the form can hold them; the rows after the first are
\* drawn from MoreRowInputs.
RowInputs ==
  { Row("dry", "100", "density", "", "100", "", "0", FALSE, ""),
    Row("moist", "50", "spacing", "10", "", "5", "3", FALSE, ""),
    Row("dry", "50", "density", "", "100", "", "3", TRUE, "5"),
    Row("dry", "50", "spacing", "5", "", "", "0", TRUE, "D-3"),
    Row("moist", "0", "density", "", "100", "", "1", TRUE, "1/(D-2)") }
MoreRowInputs ==
  { Row("moist", "50", "spacing", "10", "", "5", "3", FALSE, ""),
    Row("dry", "50", "density", "", "100", "", "3", TRUE, "5") }

\* uid() gives every row an id of its own; here the row's position.
WithIds(rs) == [i \in 1..Len(rs) |-> [rs[i] EXCEPT !.id = "r" \o ToString(i)]]

RowLists ==
  UNION {{WithIds(<<r>> \o rs) : r \in RowInputs, rs \in [1..n -> MoreRowInputs]} :
           n \in 0..(MaxSpecies - 1)}

\* The custom schedule table as the refresh effect and the area inputs leave
\* it: n rows for the years from 2025 on, each with an entered area.
ScheduleTables(n) ==
  {[i \in 1..n |-> [year |-> Int2Num(2025 + i - 1),
                    areaHa |-> IF i = 1 THEN a ELSE "2.5"]] : a \in {"1", ""}}

InitForm ==
  /\ plantingYear = "2025"
  /\ creditingEndYear \in {ToString(2025 + k) : k \in (-1)..MaxSpan}
  /\ \E m \in {<<"yes", "10">>, <<"no", "10">>, <<"yes", "150">>} :
       considerMortality = m[1] /\ mortalityRate = m[2]
  /\ defaultGrowthRate = "2"
  /\ forceYearZeroZero \in BOOLEAN
  /\ useSchedule \in BOOLEAN
  /\ IF useSchedule
       THEN /\ projectAreaHa = ""
            /\ scheduleYears \in {ToString(n) : n \in 1..MaxSchedule}
            /\ scheduleMode \in {"constant", "custom"}
            /\ constantAreaPerYear = IF scheduleMode = "constant" THEN "1" ELSE ""
            /\ customSchedule \in
                 IF scheduleMode = "constant"
                   THEN {[i \in 1..LoopCount(parseInt(scheduleYears)) |->
                            [year |-> Int2Num(2025 + i - 1), areaHa |-> ""]]}
                   ELSE ScheduleTables(LoopCount(parseInt(scheduleYears)))
       ELSE /\ projectAreaHa \in {"1", ""}
            /\ scheduleYears = "5"
            /\ scheduleMode = "custom"
            /\ constantAreaPerYear = ""
            /\ customSchedule = << >>
  /\ rows \in RowLists

(***************************************************************************)
(* The helper functions on their own: inputs drawn, then one call          *)
(***************************************************************************)
VARIABLES fnExpr, fnD, fnRegion, fnOut

fnVars == <<fnExpr, fnD, fnRegion, fnOut>>

\* AuthProvider: the two useState cells, localStorage's auth_token, whether
\* the mount effect has run, the client calls in flight, and the call whose
\* continuation ran last.
VARIABLES user, status, auth_token, mounted, calls, settled

authVars == <<user, status, auth_token, mounted, calls, settled>>
vars == <<formVars, calcVars, fnVars, authVars>>

\* The value null of user and of the stored token.
NoUser == "null"

\* No continuation has run yet.  seen is the largest identifier among the
\* calls whose continuation has run.
NoneSettled == [id |-> 0, seen |-> 0, op |-> "none", returned |-> NoUser, promise |-> "none"]

\* AuthProvider as constructed, with no token stored.
IdleAuth ==
  /\ user = NoUser /\ status = "loading" /\ auth_token = NoUser
  /\ mounted = FALSE /\ calls = {} /\ settled = NoneSettled

NoCall == [op |-> "none", out |-> [ret |-> NaN]]

ExprInputs ==
  { "", "   ", "5", "D", " D*D ", "D-3", "1/(D-2)", "exp(-1.996 + 2.32*ln(D))",
    "EXP (D)", "pow(D,2)", "sqrt(D)+max (1,D)", "min(1,2)", "ln(D)", "sqrt(0-D)",
    "2*", "1)(2", "d", "foo", "Dexp(1)", "2D", "D.x",
    "close()", "alert(1)", "Date", "Date(5)", "new(Date)(5)-0",
    "new Date(5)-0", "NEW\tDate(5)-0", "renew D", "2*new ", "D.constructor", "Constructor",
    "D.__proto__", "D.prototype", "x=>1", "D;1", "this" }

DInputs ==
  { NaN, PosInf, NegInf, Fin(0), Int2Num(-1), Fin(500), Int2Num(2), Int2Num(3),
    Int2Num(10) }

InitFn ==
  /\ fnExpr \in ExprInputs
  /\ fnD \in DInputs
  /\ fnRegion \in {"dry", "moist"}
  /\ fnOut = NoCall

\* The component as constructed, apart from what each specification draws.
IdleForm ==
  /\ projectAreaHa = "" /\ plantingYear = "2025" /\ creditingEndYear = "2045"
  /\ mortalityRate = "" /\ considerMortality = "yes" /\ defaultGrowthRate = "0.2"
  /\ forceYearZeroZero = TRUE /\ useSchedule = FALSE /\ scheduleYears = "5"
  /\ scheduleMode = "custom" /\ constantAreaPerYear = "" /\ customSchedule = << >>
  /\ rows = WithIds(<<Row("dry", "", "spacing", "", "", "", "0", FALSE, "")>>)
IdleCalc == calc = << >> /\ alertMsg = "" /\ contribs = << >>
IdleFn == fnExpr = "" /\ fnD = Fin(0) /\ fnRegion = "dry" /\ fnOut = NoCall

Init == InitForm /\ IdleCalc /\ IdleFn /\ IdleAuth

Calculate == calculate /\ UNCHANGED <<fnVars, authVars>>

Next == Calculate

Spec == Init /\ [][Next]_vars

\* evalBiomassExpr(fnD, fnExpr)
CallEval ==
  /\ fnOut' = [op |-> "eval", out |-> evalBiomass(fnD, fnExpr)]
  /\ UNCHANGED <<formVars, calcVars, authVars, fnExpr, fnD, fnRegion>>

\* The biomass function eq of a species whose custom equation is fnExpr.
CallEq ==
  /\ fnOut' = [op |-> "eq",
               out |-> [ret |-> eq(Row(fnRegion, "100", "density", "", "100",
                                       "", "0", TRUE, fnExpr), fnD)]]
  /\ UNCHANGED <<formVars, calcVars, authVars, fnExpr, fnD, fnRegion>>

\* defaultAllometryBiomassKg(fnD, fnRegion)
CallAllometry ==
  /\ fnOut' = [op |-> "allometry", out |-> defaultAllometry(fnD, fnRegion)]
  /\ UNCHANGED <<formVars, calcVars, authVars, fnExpr, fnD, fnRegion>>

NextFn == CallEval \/ CallEq \/ CallAllometry

InitHelpers == IdleForm /\ IdleCalc /\ InitFn /\ IdleAuth

SpecFn == InitHelpers /\ [][NextFn]_vars

(***************************************************************************)
(* The calculator on the inputs at the edges of validation: what the       *)
(* number inputs of the form accept (the empty string or a decimal         *)
(* number, negative ones included), then calculate                         *)
(***************************************************************************)
\* clamp(parseInt(scheduleYears || '0', 10), 0, 200) as a number of rows.
scheduleLength(sYears) ==
  LoopCount(clamp(parseInt(OrStr(sYears, "0")), Fin(0), Int2Num(200)))

\* The schedule table the refresh effect builds for n years from 2025 on,
\* with an area from `areas` entered in each row.
EdgeTables(n, areas) ==
  {[i \in 1..n |-> [year |-> Int2Num(2025 + i - 1), areaHa |-> as[i]]] :
     as \in [1..n -> areas]}

\* A species row given its share and its growth rate.
EdgeRow(percent, growth) ==
  Row("dry", percent, "density", "", "100", growth, "3", FALSE, "")

EdgeRowLists ==
  {WithIds(<<EdgeRow("100", g)>>) : g \in {"", "5", "0", "-1"}}
    \cup {WithIds(<<EdgeRow("50", ""), EdgeRow("50", "5")>>),
          WithIds(<<EdgeRow("80", ""), EdgeRow("80", ""), EdgeRow("-70", "")>>)}

\* Rows at the edges of the density inputs: <<inputMode, spacing, density>>.
\* Editing one of the two fields clears the other.  The cells are strings and
\* validate asks only that the field of the chosen mode is not empty: the
\* last two rows hold a text that is no number.
EdgeDensityRowLists ==
  {WithIds(<<Row("dry", "100", d[1], d[2], d[3], "", "3", FALSE, "")>>) :
     d \in {<<"spacing", "2", "">>, <<"spacing", "0", "">>, <<"spacing", "-2", "">>,
            <<"density", "", "-5">>, <<"density", "", "0.5">>,
            <<"spacing", "abc", "">>, <<"density", "", "abc">>}}

\* <<useSchedule, projectAreaHa, scheduleYears, scheduleMode,
\*   constantAreaPerYear>> as the inputs leave them.
EdgeSchedules ==
  ({FALSE} \X {"1", "-4", "0", ""} \X {<<"5", "custom", "">>, <<"0", "constant", "7">>})
    \cup ({TRUE} \X {"", "0.5"}
            \X ({"0", "", "2", "250", "-1", "2.5"} \X {"constant"} \X {"1", "-3", ""}))
    \cup ({TRUE} \X {""} \X {<<"2", "custom", "">>, <<"0", "custom", "">>})

\* The longest span between planting year and crediting end year drawn.
LongSpan == 301

InitEdge ==
  /\ plantingYear = "2025"
  /\ considerMortality = "yes" /\ mortalityRate = "10"
  /\ defaultGrowthRate = "2"
  /\ forceYearZeroZero = TRUE
  /\ \E s \in EdgeSchedules :
       /\ useSchedule = s[1]
       /\ projectAreaHa = s[2]
       /\ scheduleYears = s[3][1]
       /\ scheduleMode = s[3][2]
       /\ constantAreaPerYear = s[3][3]
       /\ customSchedule \in
            IF ~s[1] THEN {<< >>}
            ELSE EdgeTables(scheduleLength(s[3][1]),
                            IF s[3][2] = "custom" THEN {"1", "", "-2", "0"} ELSE {""})
  /\ rows \in EdgeRowLists
       \cup IF ~useSchedule /\ projectAreaHa = "1" /\ scheduleYears = "5"
              THEN EdgeDensityRowLists ELSE {}
  /\ creditingEndYear \in
       {"2025", "2026"}
         \cup IF /\ ~useSchedule /\ projectAreaHa = "0" /\ scheduleYears = "5"
                 /\ Len(rows) = 1 /\ rows[1].growthRateCmYr = ""
                THEN {ToString(2025 + LongSpan)} ELSE {}

InitEdges == InitEdge /\ IdleCalc /\ IdleFn /\ IdleAuth

SpecEdge == InitEdges /\ [][Next]_vars

(***************************************************************************)
(* The schedule inputs of the page: every change handler together with     *)
(* the refresh effect that runs after the render it causes, the area        *)
(* inputs of the custom table, and calculate                               *)
(***************************************************************************)
\* Faulty variant of refreshed: every row of the rebuilt table is empty.
refreshedEmpty(use, pYear, sYears, table) ==
  LET py0 == parseInt(OrStr(pYear, "0"))
  IN  IF ~use THEN << >>
      ELSE [i \in 1..scheduleLength(sYears) |->
              [year |-> Add(py0, Int2Num(i - 1)), areaHa |-> ""]]

\* The table the refresh effect sets, from the cells of the render it runs
\* after: rowsBuilt, or [] without scheduling.
refreshed(use, pYear, sYears, table) ==
  LET py0 == parseInt(OrStr(pYear, "0"))
  IN  IF ~use THEN << >>
      ELSE [i \in 1..scheduleLength(sYears) |->
              LET y == Add(py0, Int2Num(i - 1))
                  prev == {j \in 1..Len(table) : NumEq(table[j].year, y)}
              IN  [year |-> y,
                   areaHa |-> IF prev = {} THEN ""
                              ELSE table[CHOOSE j \in prev : \A k \in prev : j <= k].areaHa]]

\* The values typed into the inputs of the schedule.
PlantingYearInputs == {"2025", "2026", ".5"}
ScheduleYearsInputs == {"1", "2", "250", "-1"}
AreaInputs == {"", "4"}

\* The cells left alone by the handlers of the schedule inputs.
formRest == <<projectAreaHa, creditingEndYear, mortalityRate, considerMortality,
              defaultGrowthRate, forceYearZeroZero, constantAreaPerYear, rows>>

\* What no handler of the schedule inputs touches.
pageRest == <<calcVars, fnVars, authVars>>

\* The checkbox "Enable planting schedule".
setUseSchedule ==
  /\ useSchedule' = ~useSchedule
  /\ customSchedule' = refreshed(~useSchedule, plantingYear, scheduleYears, customSchedule)
  /\ UNCHANGED <<plantingYear, scheduleYears, scheduleMode, formRest, pageRest>>

\* The input "Planting Year".
setPlantingYear ==
  \E v \in PlantingYearInputs \ {plantingYear} :
    /\ plantingYear' = v
    /\ customSchedule' = refreshed(useSchedule, v, scheduleYears, customSchedule)
    /\ UNCHANGED <<useSchedule, scheduleYears, scheduleMode, formRest, pageRest>>

\* The input "Schedule Years", rendered while scheduling is enabled.
setScheduleYears ==
  /\ useSchedule
  /\ \E v \in ScheduleYearsInputs \ {scheduleYears} :
       /\ scheduleYears' = v
       /\ customSchedule' = refreshed(useSchedule, plantingYear, v, customSchedule)
  /\ UNCHANGED <<useSchedule, plantingYear, scheduleMode, formRest, pageRest>>

\* The select "Mode", rendered while scheduling is enabled.
setScheduleMode ==
  /\ useSchedule
  /\ scheduleMode' = IF scheduleMode = "custom" THEN "constant" ELSE "custom"
  /\ customSchedule' = refreshed(useSchedule, plantingYear, scheduleYears, customSchedule)
  /\ UNCHANGED <<useSchedule, plantingYear, scheduleYears, formRest, pageRest>>

\* The area input of a row of the custom table, here of the first row; the
\* refresh effect does not depend on customSchedule and does not run.
setAreaHa ==
  /\ useSchedule /\ scheduleMode = "custom"
  /\ \E idx \in {1} \cap DOMAIN customSchedule, v \in AreaInputs :
       /\ v # customSchedule[idx].areaHa
       /\ customSchedule' = [customSchedule EXCEPT ![idx].areaHa = v]
  /\ UNCHANGED <<useSchedule, plantingYear, scheduleYears, scheduleMode, formRest, pageRest>>

\* The page after the project, one species and two schedule years have been
\* entered and the schedule switched off again.
InitSchedule ==
  /\ projectAreaHa = "1" /\ plantingYear = "2025" /\ creditingEndYear = "2025"
  /\ mortalityRate = "" /\ considerMortality = "yes" /\ defaultGrowthRate = "0.2"
  /\ forceYearZeroZero = FALSE /\ useSchedule = FALSE /\ scheduleYears = "2"
  /\ scheduleMode = "custom" /\ constantAreaPerYear = "" /\ customSchedule = << >>
  /\ rows = WithIds(<<Row("dry", "100", "density", "", "100", "2", "3", FALSE, "")>>)

InitPage == InitSchedule /\ IdleCalc /\ IdleFn /\ IdleAuth

NextPage ==
  \/ setUseSchedule \/ setPlantingYear \/ setScheduleYears \/ setScheduleMode
  \/ setAreaHa \/ Calculate

SpecPage == InitPage /\ [][NextPage]_vars

(***************************************************************************)
(* AuthProvider (src/project/src/context/AuthContext.tsx): the mount-time   *)
(* token check and login, signup and logout, each split at its await into  *)
(* the part that starts the client call and the continuation that runs     *)
(* when the call settles.  The calls in flight settle in any order.  The   *)
(* state updates of one continuation are applied together.                 *)
(***************************************************************************)
\* The users the auth worker can return.
Users == {"u1", "u2"}

\* The most calls login, signup and logout start in one behaviour.
MaxCalls == 3

\* The number of calls the handlers have started.
started ==
  LET ids == {c.id : c \in calls} \cup {settled.seen}
  IN  CHOOSE n \in ids : \A m \in ids : m <= n

\* The calls in flight once a handler has called the client's method op.
withCall(op) == calls \cup {[id |-> started + 1, op |-> op]}

\* What the handlers leave alone up to their await.
startRest == <<user, auth_token, mounted, settled, formVars, calcVars, fnVars>>

\* The useEffect of AuthProvider: with a stored token getCurrentUser is
\* called, without one the status becomes 'unauthenticated'.
Mount ==
  /\ ~mounted
  /\ mounted' = TRUE
  /\ IF auth_token # NoUser
       THEN /\ calls' = calls \cup {[id |-> 0, op |-> "getCurrentUser"]}
            /\ UNCHANGED status
       ELSE /\ status' = "unauthenticated"
            /\ UNCHANGED calls
  /\ UNCHANGED <<user, auth_token, settled, formVars, calcVars, fnVars>>

\* What a continuation leaves: the two cells and the state of the promise
\* the handler returned.
checkThen(u) == [user |-> u, status |-> "authenticated", promise |-> "none"]
checkCatch == [user |-> user, status |-> "unauthenticated", promise |-> "none"]

loginThen(u) == [user |-> u, status |-> "authenticated", promise |-> "fulfilled"]

\* Faulty variant of loginCatch: the status is not reset.
loginCatchLoading == [user |-> user, status |-> status, promise |-> "rejected"]

loginCatch == [user |-> user, status |-> "unauthenticated", promise |-> "rejected"]

signupThen(u) == [user |-> u, status |-> "authenticated", promise |-> "fulfilled"]
signupCatch == [user |-> user, status |-> "unauthenticated", promise |-> "rejected"]

logoutThen == [user |-> NoUser, status |-> "unauthenticated", promise |-> "fulfilled"]
logoutCatch == [user |-> user, status |-> "authenticated", promise |-> "rejected"]

\* The continuation of call c runs: the client call returned user u, or
\* NoUser when it returned none or threw.
settle(c, u, out) ==
  /\ user' = out.user
  /\ status' = out.status
  /\ settled' = [id |-> c.id,
                 seen |-> IF c.id > settled.seen THEN c.id ELSE settled.seen,
                 op |-> c.op, returned |-> u, promise |-> out.promise]
  /\ calls' = calls \ {c}
  /\ UNCHANGED <<mounted, formVars, calcVars, fnVars>>

\* login, signup and logout up to their await: setStatus('loading') and the
\* client call.  The handlers exist once the provider has rendered.
login ==
  /\ mounted /\ started < MaxCalls
  /\ status' = "loading" /\ calls' = withCall("login")
  /\ UNCHANGED startRest
signup ==
  /\ mounted /\ started < MaxCalls
  /\ status' = "loading" /\ calls' = withCall("signup")
  /\ UNCHANGED startRest
logout ==
  /\ mounted /\ started < MaxCalls
  /\ status' = "loading" /\ calls' = withCall("logout")
  /\ UNCHANGED startRest

\* cloudflareClient.getCurrentUser resolved / threw.
GetCurrentUserResolved ==
  \E c \in calls, u \in Users :
    c.op = "getCurrentUser" /\ settle(c, u, checkThen(u)) /\ UNCHANGED auth_token
GetCurrentUserRejected ==
  \E c \in calls :
    c.op = "getCurrentUser" /\ settle(c, NoUser, checkCatch) /\ auth_token' = NoUser

\* cloudflareClient.login stored the token and resolved / threw.
LoginResolved ==
  \E c \in calls, u \in Users :
    c.op = "login" /\ settle(c, u, loginThen(u)) /\ auth_token' = u
LoginRejected ==
  \E c \in calls :
    c.op = "login" /\ settle(c, NoUser, loginCatch) /\ UNCHANGED auth_token

\* cloudflareClient.signup stored the token and resolved / threw.
SignupResolved ==
  \E c \in calls, u \in Users :
    c.op = "signup" /\ settle(c, u, signupThen(u)) /\ auth_token' = u
SignupRejected ==
  \E c \in calls :
    c.op = "signup" /\ settle(c, NoUser, signupCatch) /\ UNCHANGED auth_token

\* cloudflareClient.logout removed the token (finally) and resolved / threw.
LogoutResolved ==
  \E c \in calls :
    c.op = "logout" /\ settle(c, NoUser, logoutThen) /\ auth_token' = NoUser
LogoutRejected ==
  \E c \in calls :
    c.op = "logout" /\ settle(c, NoUser, logoutCatch) /\ auth_token' = NoUser

\* AuthProvider as constructed, with or without a stored token.
InitAuth ==
  /\ user = NoUser /\ status = "loading" /\ auth_token \in {NoUser} \cup Users
  /\ mounted = FALSE /\ calls = {} /\ settled = NoneSettled

InitProvider == IdleForm /\ IdleCalc /\ IdleFn /\ InitAuth

NextAuth ==
  \/ Mount
  \/ login \/ signup \/ logout
  \/ GetCurrentUserResolved \/ GetCurrentUserRejected
  \/ LoginResolved \/ LoginRejected
  \/ SignupResolved \/ SignupRejected
  \/ LogoutResolved \/ LogoutRejected

SpecAuth == InitProvider /\ [][NextAuth]_vars

(***************************************************************************)
(* Properties of calculate (specification Spec)                            *)
(***************************************************************************)
\* The contributions of the last run to the record of `year`, in loop order.
contribsOf(year) == SelectSeq(contribs, LAMBDA b : b.year = year)
SumOf(bs, f) == SumSeq([n \in 1..Len(bs) |-> bs[n][f]])

\* C1: a calculation that passed validation yields exactly
\* creditingEndYear - plantingYear + 1 YearRecords, and the k-th of them
\* (k counted from 0) has year plantingYear + k.
C1_YearRecords ==
  calc # << >> =>
    LET ys == calc[1].yearlyBreakdown
    IN  /\ Int2Num(Len(ys))
             = Add(Sub(parseInt(creditingEndYear), parseInt(plantingYear)), Int2Num(1))
        /\ \A k \in 1..Len(ys) :
             ys[k].year = Add(parseInt(plantingYear), Int2Num(k - 1))
        /\ ys[Len(ys)].year = parseInt(creditingEndYear)

\* A result that spans three years.
C1_Witness ==
  /\ calc # << >>
  /\ Len(calc[1].yearlyBreakdown) = 3
  /\ calc[1].yearlyBreakdown[3].year = Int2Num(2027)

\* C2: only schedule entries whose year is not later than the record's year
\* contribute to a YearRecord (its totals and per-species accumulators are the
\* sums over those contributions), and each contribution was computed with
\* cohortAge = record year - schedule year, which is >= 0.
C2_FutureCohorts ==
  calc # << >> =>
    /\ \A n \in 1..Len(contribs) :
         /\ Le(contribs[n].schYear, contribs[n].year)
         /\ contribs[n].cohortAge = Sub(contribs[n].year, contribs[n].schYear)
         /\ Le(Fin(0), contribs[n].cohortAge)
    /\ \A k \in 1..Len(calc[1].yearlyBreakdown) :
         LET d == calc[1].yearlyBreakdown[k]
             planted == SelectSeq(contribsOf(d.year), LAMBDA b : Le(b.schYear, d.year))
         IN  /\ d.credits = SumOf(planted, "credits")
             /\ d.biomassKg = SumOf(planted, "biomassKg")
             /\ d.survivingTrees = SumOf(planted, "surviving")
             /\ \A i \in 1..Len(d.perSpecies) :
                  LET mine == SelectSeq(planted, LAMBDA b : b.idx = i)
                  IN  /\ d.perSpecies[i].credits = SumOf(mine, "credits")
                      /\ d.perSpecies[i].biomassKg = SumOf(mine, "biomassKg")
                      /\ d.perSpecies[i].survivingTrees = SumOf(mine, "surviving")

\* A record with trees in it while a later schedule entry with a planted area
\* has not yet contributed, and contributes in a later record.
C2_Witness ==
  /\ calc # << >>
  /\ \E k \in 1..Len(calc[1].yearlyBreakdown), j \in 1..Len(scheduled) :
       /\ Lt(calc[1].yearlyBreakdown[k].year, scheduled[j].year)
       /\ Lt(Fin(0), scheduled[j].areaHa)
       /\ Lt(Fin(0), calc[1].yearlyBreakdown[k].survivingTrees)
       /\ \E n \in 1..Len(contribs) :
            contribs[n].j = j /\ Lt(Fin(0), contribs[n].surviving)

\* C3: with forceYearZeroZero set, every cohort at age 0 contributes 0 biomass
\* and 0 credits, whatever the initial diameter and the biomass formula, and
\* the record of the planting year has biomassKg = 0 and credits = 0.
C3_YearZeroForced ==
  (forceYearZeroZero /\ calc # << >>) =>
    /\ \A n \in 1..Len(contribs) :
         NumEq(contribs[n].cohortAge, Fin(0)) =>
           contribs[n].biomassKg = Fin(0) /\ contribs[n].credits = Fin(0)
    /\ calc[1].yearlyBreakdown[1].year = parseInt(plantingYear)
    /\ calc[1].yearlyBreakdown[1].biomassKg = Fin(0)
    /\ calc[1].yearlyBreakdown[1].credits = Fin(0)

\* A cohort at age 0 with trees, a nonzero initial diameter and a custom
\* formula whose value at D = 0 is positive, under the override.
C3_Witness ==
  /\ forceYearZeroZero /\ calc # << >>
  /\ \E n \in 1..Len(contribs) :
       /\ contribs[n].cohortAge = Fin(0)
       /\ Lt(Fin(0), contribs[n].surviving)
       /\ rows[contribs[n].idx].useCustomEq
       /\ Lt(Fin(0), contribs[n].biomassPerTreeKg)
       /\ rows[contribs[n].idx].initialDbhCm = "3"

\* The mortality fraction m of C4, from the form.
C4_m ==
  IF considerMortality = "yes"
    THEN MathMax(Fin(0),
                 MathMin(Int2Num(1),
                         Div(parseFloat(OrStr(mortalityRate, "0")), Int2Num(100))))
    ELSE Fin(0)

\* The case C4 gives as its example.
C4_Example(b) ==
  /\ C4_m = Fin(100)
  /\ speciesSetup[b.idx].densityHa = Int2Num(100)
  /\ scheduled[b.j].areaHa = Int2Num(1)
  /\ speciesSetup[b.idx].percent = Int2Num(100)
  /\ b.cohortAge = Int2Num(2)

\* C4: the surviving trees each contribution adds to the year's totals are
\* (share / 100) * area * density * (1 - m)^cohortAge, m being mortalityRate/100
\* clamped to [0, 1] when considerMortality is 'yes' and 0 when it is 'no';
\* m = 0.1, density 100, area 1 ha and share 100% give 81 trees at age 2.
C4_SurvivingTrees ==
  calc # << >> =>
    /\ \A n \in 1..Len(contribs) :
         LET b == contribs[n]
             sp == speciesSetup[b.idx]
         IN  /\ b.surviving
                  = Mul(Mul(Mul(Div(sp.percent, Int2Num(100)), scheduled[b.j].areaHa),
                            sp.densityHa),
                        MathPow(Sub(Int2Num(1), C4_m), b.cohortAge))
             /\ C4_Example(b) => b.surviving = Int2Num(81)
    /\ \A k \in 1..Len(calc[1].yearlyBreakdown) :
         calc[1].yearlyBreakdown[k].survivingTrees
           = SumOf(contribsOf(calc[1].yearlyBreakdown[k].year), "surviving")

\* The example of C4 occurs: 81 of 100 trees at age 2.
C4_Witness ==
  /\ calc # << >>
  /\ \E n \in 1..Len(contribs) :
       C4_Example(contribs[n]) /\ contribs[n].surviving = Int2Num(81)

\* C5: totalCredits is the sum of the YearRecords' credits, and each
\* speciesSummary entry's totalCredits is the sum over the YearRecords of that
\* species' per-species credits.
C5_Totals ==
  calc # << >> =>
    LET ys == calc[1].yearlyBreakdown
    IN  /\ calc[1].totalCredits = SumSeq([k \in 1..Len(ys) |-> ys[k].credits])
        /\ Len(calc[1].speciesSummary) = Len(rows)
        /\ \A i \in 1..Len(rows) :
             /\ calc[1].speciesSummary[i].speciesId = rows[i].id
             /\ calc[1].speciesSummary[i].totalCredits
                  = SumSeq([k \in 1..Len(ys) |-> ys[k].perSpecies[i].credits])

\* A result over several years in which two species earned different credits.
C5_Witness ==
  /\ calc # << >>
  /\ Len(calc[1].yearlyBreakdown) >= 2
  /\ Len(rows) = 2
  /\ Lt(Fin(0), calc[1].speciesSummary[1].totalCredits)
  /\ Lt(calc[1].speciesSummary[1].totalCredits, calc[1].speciesSummary[2].totalCredits)
  /\ Lt(calc[1].speciesSummary[2].totalCredits, calc[1].totalCredits)

\* C9: for a species with a custom equation the choice is made at every
\* call: the biomass per tree at a diameter is the custom expression's value
\* when that is a number >= 0, and the default regional formula at the same
\* diameter otherwise.
C9_PerCallFallback ==
  calc # << >> =>
    \A n \in 1..Len(contribs) :
      LET b == contribs[n]
          r == rows[b.idx]
          chosen(v) ==
            IF r.useCustomEq /\ r.customEquation # "" /\ isFinite(v) /\ Le(Fin(0), v)
              THEN v ELSE defaultAllometryBiomassKg(b.dbh, r.region)
      IN  b.biomassPerTreeKg = chosen(evalBiomassExpr(b.dbh, r.customEquation))

\* One species whose custom expression is negative at one age, where the
\* default formula's positive value is used, and valid at a later age, where
\* its own value is used.
C9_Witness ==
  /\ calc # << >>
  /\ \E n, m \in 1..Len(contribs) :
       /\ contribs[n].idx = contribs[m].idx
       /\ rows[contribs[n].idx].customEquation = "D-3"
       /\ contribs[n].dbh = Int2Num(2)
       /\ contribs[n].biomassPerTreeKg
            = defaultAllometryBiomassKg(Int2Num(2), rows[contribs[n].idx].region)
       /\ Lt(Fin(0), contribs[n].biomassPerTreeKg)
       /\ contribs[m].dbh = Int2Num(4)
       /\ contribs[m].biomassPerTreeKg = Int2Num(1)

\* The schedule entries whose year is not later than `year`.
C14_Active(year) == {j \in 1..Len(scheduled) : Le(scheduled[j].year, year)}

\* C14: for every year and every species with a positive share, the reported
\* dbhCm is the diameter of the last schedule entry (in schedule order) whose
\* year is <= that year, 0 at age 0 under forceYearZeroZero, while the
\* species' biomass, credits and surviving trees are the sums over all the
\* active cohorts, one contribution for each.
C14_LastCohortDiameter ==
  calc # << >> =>
    \A k \in 1..Len(calc[1].yearlyBreakdown), i \in 1..Len(rows) :
      LET d == calc[1].yearlyBreakdown[k]
          sp == speciesSetup[i]
          active == C14_Active(d.year)
          last == CHOOSE j \in active : \A m \in active : m <= j
          age == Sub(d.year, scheduled[last].year)
          mine == SelectSeq(contribsOf(d.year), LAMBDA b : b.idx = i)
      IN  (Lt(Fin(0), sp.percent) /\ active # {}) =>
            /\ d.perSpecies[i].dbhCm
                 = IF forceYearZeroZero /\ age = Fin(0) THEN Fin(0)
                   ELSE Add(sp.initialDbhCm, Mul(sp.growthRateCmYr, age))
            /\ Len(mine) = Cardinality(active)
            /\ \A j \in active : \E n \in 1..Len(mine) : mine[n].j = j
            /\ d.perSpecies[i].biomassKg = SumOf(mine, "biomassKg")
            /\ d.perSpecies[i].credits = SumOf(mine, "credits")
            /\ d.perSpecies[i].survivingTrees = SumOf(mine, "surviving")

\* A record in which a species has three cohorts of ages 2, 1 and 0 with
\* diameters 13, 8 and 0: 0 is reported, and the trees of all three are
\* summed.
C14_Witness ==
  /\ calc # << >> /\ forceYearZeroZero
  /\ \E k \in 1..Len(calc[1].yearlyBreakdown), i \in 1..Len(rows) :
       LET d == calc[1].yearlyBreakdown[k]
           mine == SelectSeq(contribsOf(d.year), LAMBDA b : b.idx = i)
       IN  /\ Len(mine) = 3
           /\ mine[1].dbh = Int2Num(13) /\ mine[2].dbh = Int2Num(8)
           /\ mine[3].dbh = Fin(0)
           /\ d.perSpecies[i].dbhCm = Fin(0)
           /\ Lt(Fin(0), mine[1].surviving)
           /\ Lt(mine[1].surviving, d.perSpecies[i].survivingTrees)

\* Without the override the youngest cohort's initial diameter is reported.
C14_WitnessUnforced ==
  /\ calc # << >> /\ ~forceYearZeroZero
  /\ \E k \in 1..Len(calc[1].yearlyBreakdown), i \in 1..Len(rows) :
       LET d == calc[1].yearlyBreakdown[k]
           mine == SelectSeq(contribsOf(d.year), LAMBDA b : b.idx = i)
       IN  /\ Len(mine) = 2
           /\ mine[1].dbh = Int2Num(8) /\ mine[2].dbh = Int2Num(3)
           /\ d.perSpecies[i].dbhCm = Int2Num(3)

C23_Tonnes(biomassKg) ==
  Div(Mul(Mul(biomassKg, Fin(470)), Div(Int2Num(44), Int2Num(12))), Int2Num(1000))

\* Whether credits is C23_Tonnes(biomassKg) for a sum of n contributions,
\* each of which was rounded to the model's resolution on its own.
C23_Converted(credits, biomassKg, n) ==
  /\ isFinite(credits) /\ isFinite(biomassKg)
  /\ Abs(credits.v - C23_Tonnes(biomassKg).v) <= n

\* C23: each cohort-species contribution to credits is its biomass in kg times
\* 0.47 * (44/12) / 1000, and therefore in every YearRecord and every
\* per-species entry credits = biomassKg * 0.47 * (44/12) / 1000, up to the
\* rounding of the summands; 1000 kg of biomass is 1.723 tonnes CO2e.
C23_CreditsFromBiomass ==
  calc # << >> =>
    /\ \A n \in 1..Len(contribs) :
         contribs[n].credits = C23_Tonnes(contribs[n].biomassKg)
    /\ \A k \in 1..Len(calc[1].yearlyBreakdown) :
         LET d == calc[1].yearlyBreakdown[k]
             bs == contribsOf(d.year)
         IN  /\ C23_Converted(d.credits, d.biomassKg, Len(bs))
             /\ \A i \in 1..Len(d.perSpecies) :
                  C23_Converted(d.perSpecies[i].credits, d.perSpecies[i].biomassKg,
                                Len(SelectSeq(bs, LAMBDA b : b.idx = i)))
    /\ C23_Tonnes(Int2Num(1000)) = Fin(1723)

\* A record that sums the credits of several cohorts and species, more than
\* a tonne in all.
C23_Witness ==
  /\ calc # << >>
  /\ \E k \in 1..Len(calc[1].yearlyBreakdown) :
       LET d == calc[1].yearlyBreakdown[k]
           bs == contribsOf(d.year)
       IN  /\ Len(bs) >= 3
           /\ \A n \in 1..Len(bs) : Lt(Fin(0), bs[n].credits)
           /\ Lt(Int2Num(1), d.credits)
           /\ Lt(Fin(0), d.perSpecies[1].credits)
           /\ Lt(d.perSpecies[1].credits, d.credits)

(***************************************************************************)
(* Properties of calculate on the edge inputs (specification SpecEdge)     *)
(***************************************************************************)
\* The growth rate C11 gives row r: its own when positive, else the default.
C11_Resolved(r) ==
  LET own == parseFloat(r.growthRateCmYr)
  IN  IF isFinite(own) /\ Lt(Fin(0), own) THEN own ELSE parseFloat(defaultGrowthRate)

\* C11: a species' resolved growth rate is its own growthRateCmYr when that
\* is positive and the project's default growth rate when it is absent,
\* non-numeric, zero or negative: every diameter computed after age 0 is the
\* initial diameter plus that rate times the cohort's age.
C11_GrowthRateResolution ==
  calc # << >> =>
    \A n \in 1..Len(contribs) :
      LET b == contribs[n]
          r == rows[b.idx]
      IN  ~NumEq(b.cohortAge, Fin(0)) =>
            b.dbh = Add(parseFloat(r.initialDbhCm), Mul(C11_Resolved(r), b.cohortAge))

\* A species with growth rate -1 and initial diameter 3 under a default rate
\* of 2: at age 1 its diameter is 2, not 5.
C11_NegativeRateUsed ==
  /\ calc # << >>
  /\ \E n \in 1..Len(contribs) :
       /\ rows[contribs[n].idx].growthRateCmYr = "-1"
       /\ contribs[n].cohortAge = Int2Num(1)
       /\ contribs[n].dbh = Int2Num(2)

\* The effective area shares of the species, in row order.
C12_Shares == [i \in 1..Len(rows) |-> speciesSetup[i].percent]

\* C12: whenever calculate proceeds past validation, each species' effective
\* area share is in [0, 100] and the shares sum to at most 100, so the area
\* allocated to the species of a cohort never exceeds the cohort's area.
C12_SharesWithinCohort ==
  calc # << >> =>
    /\ \A i \in 1..Len(rows) :
         Le(Fin(0), C12_Shares[i]) /\ Le(C12_Shares[i], Int2Num(100))
    /\ Le(SumSeq(C12_Shares), Int2Num(100))
    /\ \A j \in 1..Len(scheduled) :
         Le(SumSeq([i \in 1..Len(rows) |->
                      Mul(Div(C12_Shares[i], Int2Num(100)), scheduled[j].areaHa)]),
            scheduled[j].areaHa)

\* Shares of 80, 80 and -70 pass validation (their sum is 90); the effective
\* shares are 80, 80 and 0, and one hectare at 100 trees/ha holds 160 trees.
C12_OverAllocated ==
  /\ calc # << >>
  /\ Len(rows) = 3
  /\ SumSeq(C12_Shares) = Int2Num(160)
  /\ \E j \in 1..Len(scheduled) : scheduled[j].areaHa = Int2Num(1)
  /\ calc[1].yearlyBreakdown[1].survivingTrees = Int2Num(160)

\* N of C15: the schedule-years count clamped to [0, 200].
C15_N ==
  LET v == parseInt(OrStr(scheduleYears, "0"))
  IN  IF Lt(v, Fin(0)) THEN 0 ELSE IF Lt(Int2Num(200), v) THEN 200 ELSE v.v \div Scale

\* The area C15 gives an entry for the entered text a: its value, or 0 when
\* it is unspecified, invalid or negative.
C15_Area(a) ==
  LET v == parseFloat(a)
  IN  IF a # "" /\ isFinite(v) /\ Lt(Fin(0), v) THEN v ELSE Fin(0)

\* C15: with scheduling enabled the built schedule has exactly
\* N = clamp(scheduleYears, 0, 200) entries, the i-th (from 0) for the year
\* plantingYear + i, every area is >= 0, and in constant mode every area is
\* the constant area, or 0 when that is unspecified, invalid or negative.
C15_ScheduleBuilt ==
  (calc # << >> /\ useSchedule) =>
    /\ Len(scheduled) = C15_N
    /\ \A i \in 1..Len(scheduled) :
         /\ scheduled[i].year = Add(parseInt(plantingYear), Int2Num(i - 1))
         /\ Le(Fin(0), scheduled[i].areaHa)
         /\ scheduleMode = "constant" =>
              scheduled[i].areaHa = C15_Area(constantAreaPerYear)

\* A count of 250 gives 200 entries, and a constant area of -3 gives areas
\* of 0.
C15_Witness ==
  /\ calc # << >> /\ useSchedule /\ scheduleMode = "constant"
  /\ scheduleYears = "250" /\ constantAreaPerYear = "-3"
  /\ Len(scheduled) = 200
  /\ scheduled[200] = [year |-> Int2Num(2224), areaHa |-> Fin(0)]

\* A count of 2.5 gives two entries with the constant area.
C15_WitnessArea ==
  /\ calc # << >> /\ useSchedule /\ scheduleMode = "constant"
  /\ scheduleYears = "2.5" /\ constantAreaPerYear = "1"
  /\ scheduled = <<[year |-> Int2Num(2025), areaHa |-> Int2Num(1)],
                   [year |-> Int2Num(2026), areaHa |-> Int2Num(1)]>>

\* The messages of validate's checks of the planting schedule.
C16_ScheduleMessages ==
  {"Schedule years must be > 0.", "Enter constant area per year (ha).",
   "Schedule rows did not initialize correctly.",
   "Enter non-negative area (ha) for each schedule year."}

\* C16: with scheduling disabled the schedule is the single entry at
\* plantingYear with the project area (0 if unspecified, invalid or negative),
\* and the schedule-years count, the schedule mode, the constant area and the
\* custom rows have no effect: no schedule check rejects the run, every
\* species with a positive share contributes once per year, from that single
\* entry, and the trees it contributes are determined by the project area.
C16_NoSchedule ==
  ~useSchedule =>
    /\ alertMsg \notin C16_ScheduleMessages
    /\ alertMsg # "" => projectAreaHa = ""
    /\ calc # << >> =>
         /\ scheduled = <<[year |-> parseInt(plantingYear),
                           areaHa |-> C15_Area(projectAreaHa)]>>
         /\ \A n \in 1..Len(contribs) :
              LET b == contribs[n]
                  sp == speciesSetup[b.idx]
              IN  /\ b.j = 1 /\ b.schYear = parseInt(plantingYear)
                  /\ b.cohortAge = Sub(b.year, parseInt(plantingYear))
                  /\ b.surviving
                       = Mul(Mul(Mul(Div(sp.percent, Int2Num(100)),
                                     C15_Area(projectAreaHa)),
                                 sp.densityHa),
                             MathPow(Sub(Int2Num(1), C4_m), b.cohortAge))
         /\ \A k \in 1..Len(calc[1].yearlyBreakdown) :
              Len(contribsOf(calc[1].yearlyBreakdown[k].year))
                = Cardinality({i \in 1..Len(rows) : Lt(Fin(0), speciesSetup[i].percent)})

\* Scheduling is off while the schedule cells hold a count of 0, constant
\* mode and an area of 7: the run proceeds, and 1 ha at 100 trees/ha gives
\* 100 trees in the planting year and 90 a year later.
C16_Witness ==
  /\ ~useSchedule /\ scheduleYears = "0" /\ scheduleMode = "constant"
  /\ constantAreaPerYear = "7" /\ projectAreaHa = "1"
  /\ calc # << >> /\ Len(rows) = 1
  /\ Len(calc[1].yearlyBreakdown) = 2
  /\ calc[1].yearlyBreakdown[1].survivingTrees = Int2Num(100)
  /\ calc[1].yearlyBreakdown[2].survivingTrees = Int2Num(90)

\* A negative project area counts as 0.
C16_WitnessNegative ==
  /\ ~useSchedule /\ projectAreaHa = "-4" /\ calc # << >>
  /\ scheduled[1].areaHa = Fin(0)
  /\ calc[1].yearlyBreakdown[1].survivingTrees = Fin(0)

\* The custom schedule rows whose area is empty or negative.
C17_Missing ==
  {i \in 1..Len(customSchedule) :
     \/ customSchedule[i].areaHa = ""
     \/ Lt(parseFloat(customSchedule[i].areaHa), Fin(0))}

\* C17: in custom schedule mode validation rejects the run whenever a custom
\* schedule row has an empty or negative area, and a calculation that
\* proceeds takes the area of every schedule year from the row of that year,
\* which exists and holds a non-negative number (a year without a row or
\* without a parseable area would count as 0, and never occurs).
C17_CustomSchedule ==
  (useSchedule /\ scheduleMode = "custom") =>
    /\ C17_Missing # {} => calc = << >>
    /\ (C17_Missing # {} /\ alertMsg # "") =>
         alertMsg = "Enter non-negative area (ha) for each schedule year."
    /\ calc # << >> =>
         \A i \in 1..Len(scheduled) :
           \E k \in 1..Len(customSchedule) :
             /\ customSchedule[k].year = scheduled[i].year
             /\ customSchedule[k].areaHa # ""
             /\ scheduled[i].areaHa = parseFloat(customSchedule[k].areaHa)
             /\ Le(Fin(0), scheduled[i].areaHa)

\* A run that proceeds with areas 1 and 0 entered for 2025 and 2026.
C17_Witness ==
  /\ useSchedule /\ scheduleMode = "custom" /\ calc # << >>
  /\ customSchedule = <<[year |-> Int2Num(2025), areaHa |-> "1"],
                        [year |-> Int2Num(2026), areaHa |-> "0"]>>
  /\ scheduled = <<[year |-> Int2Num(2025), areaHa |-> Int2Num(1)],
                   [year |-> Int2Num(2026), areaHa |-> Fin(0)]>>

\* A run rejected for a negative area, and one rejected for an empty area.
C17_WitnessRejected ==
  /\ useSchedule /\ scheduleMode = "custom" /\ calc = << >>
  /\ alertMsg = "Enter non-negative area (ha) for each schedule year."
  /\ customSchedule[1].areaHa = "1" /\ customSchedule[2].areaHa \in {"-2", ""}

C19_Entered(y) ==
  IF scheduleMode = "constant" THEN constantAreaPerYear
  ELSE LET k == CHOOSE k \in 1..Len(customSchedule) : customSchedule[k].year = y
       IN  customSchedule[k].areaHa

\* C19: with scheduling enabled the project area is neither required by
\* validation nor used in the computation: no run is rejected for it, a run
\* whose schedule inputs are valid proceeds whatever the project area, and the
\* trees every cohort contributes are determined by the area entered for its
\* schedule year, also when the scheduled total exceeds the project area.
C19_ProjectAreaUnused ==
  useSchedule =>
    /\ alertMsg # "Enter Total Project Area (ha)."
    /\ (scheduleMode = "constant" /\ C15_N > 0 /\ constantAreaPerYear # "") =>
         alertMsg = ""
    /\ calc # << >> =>
         \A n \in 1..Len(contribs) :
           LET b == contribs[n]
               sp == speciesSetup[b.idx]
           IN  b.surviving
                 = Mul(Mul(Mul(Div(sp.percent, Int2Num(100)),
                               C15_Area(C19_Entered(b.schYear))),
                           sp.densityHa),
                       MathPow(Sub(Int2Num(1), C4_m), b.cohortAge))

\* Two years of 1 ha each are scheduled while the project area reads 0.5:
\* the run proceeds, with 100 trees in 2025 and 90 + 100 in 2026.
C19_Witness ==
  /\ useSchedule /\ projectAreaHa = "0.5"
  /\ scheduleMode = "constant" /\ constantAreaPerYear = "1" /\ scheduleYears = "2"
  /\ calc # << >> /\ Len(rows) = 1
  /\ Len(calc[1].yearlyBreakdown) = 2
  /\ calc[1].yearlyBreakdown[1].survivingTrees = Int2Num(100)
  /\ calc[1].yearlyBreakdown[2].survivingTrees = Int2Num(190)

\* The same schedule with the project area left empty gives the same trees.
C19_WitnessEmpty ==
  /\ useSchedule /\ projectAreaHa = ""
  /\ scheduleMode = "constant" /\ constantAreaPerYear = "1" /\ scheduleYears = "2"
  /\ calc # << >> /\ Len(rows) = 1
  /\ Len(calc[1].yearlyBreakdown) = 2
  /\ calc[1].yearlyBreakdown[2].survivingTrees = Int2Num(190)

\* C21: every calculation does a bounded amount of work: the schedule never
\* has more than 200 entries, and the number of YearRecords produced is
\* bounded by a fixed limit, that of the span clamped to [0, 300], whatever
\* planting year and crediting end year pass validation.
C21_BoundedWork ==
  calc # << >> =>
    /\ Len(scheduled) <= 200
    /\ Int2Num(Len(calc[1].yearlyBreakdown)) = Add(yearsSpan, Int2Num(1))
    /\ Len(calc[1].yearlyBreakdown) <= SpanLimit + 1

\* A crediting end year more than 300 years after the planting year passes
\* validation, and calculate produces a YearRecord for every year of it
\* while "Years modeled" reads 300.
C21_OverLimit ==
  /\ calc # << >>
  /\ yearsSpan = Int2Num(SpanLimit)
  /\ Len(calc[1].yearlyBreakdown) > SpanLimit + 1
  /\ Int2Num(Len(calc[1].yearlyBreakdown))
       = Add(Sub(parseInt(creditingEndYear), parseInt(plantingYear)), Int2Num(1))

\* The density C22 gives row r.
C22_Density(r) ==
  IF r.inputMode = "density"
    THEN LET v == parseFloat(r.density)
         IN  IF Lt(v, Fin(0)) THEN Fin(0) ELSE v
    ELSE LET v == parseFloat(r.spacing)
         IN  IF r.spacing # "" /\ isFinite(v) /\ Lt(Fin(0), v)
               THEN Div(Int2Num(10000), Mul(v, v)) ELSE Fin(0)

\* C22: each species' resolved density is never negative: in density mode
\* the given density floored at 0, in spacing mode 10000 / spacing^2, and 0
\* for a spacing that is <= 0, empty or no number, whatever the other
\* field holds; the trees planted are the allocated area times that density.
C22_DensityResolved ==
  calc # << >> =>
    /\ \A i \in 1..Len(rows) :
         /\ speciesSetup[i].densityHa = C22_Density(rows[i])
         /\ ~Lt(speciesSetup[i].densityHa, Fin(0))
    /\ \A n \in 1..Len(contribs) :
         LET b == contribs[n]
         IN  b.cohortAge = Fin(0) =>
               b.surviving
                 = Mul(Mul(Div(speciesSetup[b.idx].percent, Int2Num(100)),
                           scheduled[b.j].areaHa),
                       C22_Density(rows[b.idx]))

\* One hectare at a spacing of 2 m holds 2500 trees.
C22_Witness ==
  /\ calc # << >> /\ Len(rows) = 1
  /\ rows[1].inputMode = "spacing" /\ rows[1].spacing = "2"
  /\ calc[1].yearlyBreakdown[1].survivingTrees = Int2Num(2500)

\* A spacing of -2 or "abc" and a density of -5 give no trees.
C22_WitnessZero ==
  /\ calc # << >> /\ Len(rows) = 1
  /\ \/ rows[1].inputMode = "spacing" /\ rows[1].spacing = "-2"
     \/ rows[1].inputMode = "spacing" /\ rows[1].spacing = "abc"
     \/ rows[1].inputMode = "density" /\ rows[1].density = "-5"
  /\ speciesSetup[1].densityHa = Fin(0)
  /\ calc[1].yearlyBreakdown[1].survivingTrees = Fin(0)

\* x is a finite number >= 0.
C25_Safe(x) == isFinite(x) /\ Le(Fin(0), x)

\* C25: whatever strings pass validation, credits, biomassKg and
\* survivingTrees of every YearRecord and of every per-species entry, and
\* totalCredits, are finite numbers >= 0.
C25_FiniteNonNegative ==
  calc # << >> =>
    /\ C25_Safe(calc[1].totalCredits)
    /\ \A i \in 1..Len(calc[1].yearlyBreakdown) :
         LET d == calc[1].yearlyBreakdown[i]
         IN  /\ C25_Safe(d.credits) /\ C25_Safe(d.biomassKg) /\ C25_Safe(d.survivingTrees)
             /\ \A k \in 1..Len(d.perSpecies) :
                  /\ C25_Safe(d.perSpecies[k].credits)
                  /\ C25_Safe(d.perSpecies[k].biomassKg)
                  /\ C25_Safe(d.perSpecies[k].survivingTrees)

\* A density that is no number passes validation and Math.max(0, NaN) is NaN:
\* the trees, the biomass and the credits of the result are NaN.
C25_NaNPropagated ==
  /\ calc # << >> /\ validate = Null
  /\ rows[1].inputMode = "density" /\ rows[1].density = "abc"
  /\ isNaN(speciesSetup[1].densityHa)
  /\ isNaN(calc[1].yearlyBreakdown[1].survivingTrees)
  /\ Len(calc[1].yearlyBreakdown) = 2
  /\ isNaN(calc[1].yearlyBreakdown[2].perSpecies[1].biomassKg)
  /\ isNaN(calc[1].yearlyBreakdown[2].credits)
  /\ isNaN(calc[1].totalCredits)

\* C28: in every YearRecord the total credits, biomassKg and survivingTrees
\* are each the sum of that field over the record's perSpecies entries;
\* perSpecies has one entry per species row, in the order of the rows; the
\* entry of a species whose share is <= 0 stays all-zero.
C28_YearTotals ==
  calc # << >> =>
    \A i \in 1..Len(calc[1].yearlyBreakdown) :
      LET d == calc[1].yearlyBreakdown[i]
          over(f) == SumSeq([k \in 1..Len(d.perSpecies) |-> d.perSpecies[k][f]])
      IN  /\ d.credits = over("credits")
          /\ d.biomassKg = over("biomassKg")
          /\ d.survivingTrees = over("survivingTrees")
          /\ Len(d.perSpecies) = Len(rows)
          /\ \A k \in 1..Len(rows) :
               /\ d.perSpecies[k].speciesId = rows[k].id
               /\ d.perSpecies[k].name = rows[k].name
               /\ Le(speciesSetup[k].percent, Fin(0)) =>
                    /\ d.perSpecies[k].credits = Fin(0)
                    /\ d.perSpecies[k].biomassKg = Fin(0)
                    /\ d.perSpecies[k].survivingTrees = Fin(0)
                    /\ d.perSpecies[k].dbhCm = Fin(0)

\* A year in which two species each hold a positive part of the year's
\* credits and trees.
C28_Witness ==
  /\ calc # << >> /\ Len(rows) = 2
  /\ \E i \in 1..Len(calc[1].yearlyBreakdown) :
       LET d == calc[1].yearlyBreakdown[i]
       IN  /\ Lt(Fin(0), d.perSpecies[1].credits)
           /\ Lt(Fin(0), d.perSpecies[2].credits)
           /\ d.perSpecies[1].credits # d.perSpecies[2].credits
           /\ d.credits = Add(d.perSpecies[1].credits, d.perSpecies[2].credits)
           /\ d.survivingTrees
                = Add(d.perSpecies[1].survivingTrees, d.perSpecies[2].survivingTrees)

\* A species whose share is -70 has an all-zero entry next to two species
\* with trees.
C28_WitnessZeroShare ==
  /\ calc # << >> /\ Len(rows) = 3 /\ rows[3].percent = "-70"
  /\ \E i \in 1..Len(calc[1].yearlyBreakdown) :
       LET d == calc[1].yearlyBreakdown[i]
       IN  /\ Lt(Fin(0), d.perSpecies[1].credits)
           /\ d.perSpecies[3].credits = Fin(0)
           /\ d.perSpecies[3].survivingTrees = Fin(0)

(***************************************************************************)
(* Properties of the schedule inputs (specification SpecPage)              *)
(***************************************************************************)
\* The cells the refresh effect depends on.
C29_Deps == <<useSchedule, plantingYear, scheduleYears, scheduleMode>>

\* The table is that of the cells use, pYear and sYears: it is empty
\* without scheduling and has otherwise
\* clamp(scheduleYears, 0, 200) rows, the first for plantingYear and each
\* further one for the year after the row before it.
C29_Built(use, pYear, sYears, table) ==
  IF ~use THEN table = << >>
  ELSE /\ Len(table) = scheduleLength(sYears)
       /\ table # << >> => NumEq(table[1].year, parseInt(OrStr(pYear, "0")))
       /\ \A i \in 2..Len(table) :
            NumEq(table[i].year, Add(table[i - 1].year, Int2Num(1)))

\* In a step that changes a cell the effect depends on, a row whose year is
\* still in the table keeps its area.
C29_Kept ==
  C29_Deps' # C29_Deps =>
    \A j \in DOMAIN customSchedule :
      customSchedule[j].areaHa # "" =>
        \A i \in DOMAIN customSchedule' :
          customSchedule'[i].year = customSchedule[j].year
            => customSchedule'[i].areaHa = customSchedule[j].areaHa

\* C29, as the code has it: after every change of the schedule toggle, the
\* planting year, the number of schedule years, the mode or an area, once
\* the refresh effect has run, the table is empty without scheduling and
\* has otherwise clamp(scheduleYears, 0, 200) rows; when plantingYear
\* parses to an integer their years are consecutive from plantingYear on
\* and the area entered for a year still in range is kept; when it does not
\* (".5"), every row's year is NaN and a change of the effect's cells
\* empties every area.
C29_TableRefreshed ==
  [][IF ~isNaN(parseInt(OrStr(plantingYear', "0")))
       THEN /\ C29_Built(useSchedule', plantingYear', scheduleYears', customSchedule')
            /\ C29_Kept
       ELSE /\ Len(customSchedule')
                 = IF useSchedule' THEN scheduleLength(scheduleYears') ELSE 0
            /\ \A i \in DOMAIN customSchedule' :
                 /\ isNaN(customSchedule'[i].year)
                 /\ C29_Deps' # C29_Deps => customSchedule'[i].areaHa = ""]_vars

\* C29, as stated: after every such change the table is empty without
\* scheduling and has otherwise exactly clamp(scheduleYears, 0, 200) rows
\* with consecutive distinct years starting at plantingYear, and the area
\* entered for a year still in range is kept.
C29_TableInSync ==
  [][/\ C29_Built(useSchedule', plantingYear', scheduleYears', customSchedule')
     /\ C29_Kept]_vars

\* The area 4 entered for 2026 is in the second row after the planting year
\* went back from 2026 to 2025.
C29_Witness ==
  /\ useSchedule /\ plantingYear = "2025" /\ scheduleYears = "2"
  /\ Len(customSchedule) = 2
  /\ customSchedule[1] = [year |-> Int2Num(2025), areaHa |-> ""]
  /\ customSchedule[2] = [year |-> Int2Num(2026), areaHa |-> "4"]

\* 250 schedule years give a table of 200 rows.
C29_WitnessClamped ==
  /\ useSchedule /\ scheduleYears = "250" /\ Len(customSchedule) = 200
  /\ customSchedule[200].year = Int2Num(2225)

\* A planting year of ".5" gives rows whose year is NaN.
C29_WitnessNaN ==
  /\ useSchedule /\ plantingYear = ".5" /\ Len(customSchedule) = 2
  /\ isNaN(customSchedule[1].year) /\ isNaN(customSchedule[2].year)

\* C27: a run of calculate on a form validate rejects stores no new result
\* and leaves the stored one as it is; a run on a form validate accepts ends
\* with a result and not with an exception.
C27_RejectedRunKeepsResult ==
  [][(UNCHANGED formVars /\ vars' # vars) =>
       IF validate # Null
         THEN calc' = calc /\ contribs' = contribs /\ alertMsg' = validate
         ELSE calc' # << >> /\ calc'[1] = resultOf(yearly) /\ alertMsg' = alertMsg]_vars

\* A result is stored, the form has since been changed to one validate
\* rejects, and calculate has shown validate's message.
C27_Witness ==
  /\ calc # << >> /\ Lt(Fin(0), calc[1].totalCredits)
  /\ useSchedule /\ validate # Null /\ alertMsg = validate

(***************************************************************************)
(* Properties of AuthProvider (specification SpecAuth)                     *)
(***************************************************************************)
\* C26: when the continuation of a login runs after the client call failed,
\* the status is 'unauthenticated', not 'loading', and the promise login
\* returned is rejected; when it runs after the client call succeeded, the
\* status is 'authenticated' and user is the user the call returned.
C26_LoginSettles ==
  [][(settled' # settled /\ settled'.op = "login") =>
       IF settled'.returned = NoUser
         THEN /\ status' = "unauthenticated"
              /\ settled'.promise = "rejected"
              /\ user' = user
         ELSE /\ status' = "authenticated"
              /\ user' = settled'.returned
              /\ settled'.promise = "fulfilled"]_vars

\* A failed login has just left the status 'unauthenticated' and its promise
\* rejected.
C26_Witness ==
  /\ settled.op = "login" /\ settled.returned = NoUser
  /\ settled.promise = "rejected" /\ status = "unauthenticated"

\* A successful login has just left the status 'authenticated' and its user
\* in place of another one.
C26_WitnessSuccess ==
  /\ settled.op = "login" /\ settled.returned = "u2" /\ settled.id > 1
  /\ status = "authenticated" /\ user = "u2" /\ auth_token = "u2"

\* C30: in every reachable state of AuthProvider, whatever the order in
\* which the token check, login, signup and logout and their outcomes
\* interleave, a status of 'authenticated' comes with a user, and the status
\* 'unauthenticated' a successful logout has just set comes with no user.
C30_AuthenticatedHasUser ==
  /\ status = "authenticated" => user # NoUser
  /\ (settled.op = "logout" /\ settled.promise = "fulfilled" /\ status = "unauthenticated")
       => user = NoUser

\* Without a stored token and without a login, a logout whose client call
\* failed has left the status 'authenticated' and no user.
C30_AuthenticatedWithoutUser ==
  /\ settled.op = "logout" /\ settled.promise = "rejected" /\ settled.id = 1
  /\ calls = {} /\ status = "authenticated" /\ user = NoUser /\ auth_token = NoUser

(***************************************************************************)
(* Properties of the helper functions (specification SpecFn)               *)
(***************************************************************************)
\* The identifiers of the text s.
Names(s) ==
  LET ids(ts) == {ts[i].s : i \in {m \in 1..Len(ts) : ts[m].t = "id"}}
  IN  ids(Tokenize(s, 1))

\* The vocabulary of custom expressions: the variable D and the six function
\* names, which the rewriting accepts in any letter case.
IsVocabularyName(n) ==
  \/ n = "D"
  \/ \E f \in {"exp", "ln", "sqrt", "pow", "min", "max"} :
       Len(n) = Len(f) /\ MatchAt(n, 1, f)

\* C6: an input that contains an identifier other than D, exp, ln, sqrt, pow,
\* min and max is rejected without being evaluated, so an expression that is
\* evaluated references and calls no name outside D and those six functions:
\* whenever new Function and the call ran to completion, every identifier of
\* the input is one of the seven.
C6_OnlyVocabularyNames ==
  (fnOut.op = "eval" /\ fnOut.out.stage \in {"notfinite", "value"}) =>
    \A n \in Names(trim(fnExpr)) : IsVocabularyName(n)

\* An input naming a global function passes both guards, is evaluated and
\* yields a number.
C6_GlobalReached ==
  /\ fnOut.op = "eval"
  /\ "Date" \in Names(trim(fnExpr))
  /\ fnOut.out.stage = "value"
  /\ fnOut.out.ret = Int2Num(5)

\* Whether s contains one of the strings C7 lists, in any letter case.
C7_Listed(s) ==
  \E pat \in {"constructor", "__proto__", "prototype", "=>", "new "} :
    ContainsCI(s, pat)

\* C7: for an expression containing 'constructor', '__proto__', 'prototype',
\* '=>' or 'new ' in any letter case, evalBiomassExpr returns NaN and the
\* species' biomass function returns the default regional value for the
\* diameter.
C7_BlockedStrings ==
  C7_Listed(fnExpr) =>
    /\ fnOut.op = "eval" => isNaN(fnOut.out.ret)
    /\ fnOut.op = "eq" => fnOut.out.ret = defaultAllometryBiomassKg(fnD, fnRegion)

\* An expression with 'new ' that the character whitelist lets through, and
\* the default formula's positive value returned for it.
C7_Witness ==
  /\ fnOut.op = "eq"
  /\ ContainsCI(fnExpr, "new ")
  /\ allowed(trim(fnExpr))
  /\ fnOut.out.ret = defaultAllometryBiomassKg(fnD, fnRegion)
  /\ Lt(Fin(0), fnOut.out.ret)

\* C8: evalBiomassExpr never throws to its caller and returns a finite number
\* or NaN: NaN for the empty input, for disallowed characters, for a syntax
\* error or an exception, and for a result that is no finite number.
C8_NeverThrows ==
  fnOut.op = "eval" =>
    /\ ~fnOut.out.threw
    /\ isFinite(fnOut.out.ret) \/ isNaN(fnOut.out.ret)
    /\ fnExpr = "" => isNaN(fnOut.out.ret)
    /\ ~allowed(trim(fnExpr)) => isNaN(fnOut.out.ret)
    /\ fnOut.out.stage \in {"caught", "notfinite"} => isNaN(fnOut.out.ret)
    /\ fnOut.out.stage = "value" => isFinite(fnOut.out.ret)

\* A call in which new Function or the function threw, and NaN came back.
C8_Witness ==
  /\ fnOut.op = "eval"
  /\ fnOut.out.stage = "caught"
  /\ isNaN(fnOut.out.ret)
  /\ ~fnOut.out.threw

\* C10: defaultAllometryBiomassKg returns 0 for every diameter that is <= 0 or
\* not finite, in both regions, and takes no logarithm for it.
C10_ZeroWithoutLn ==
  (/\ fnOut.op = "allometry"
   /\ Le(fnD, Fin(0)) \/ ~isFinite(fnD)) =>
    /\ fnOut.out.ret = Fin(0)
    /\ ~fnOut.out.tookLn

\* The diameter +Infinity passes the guard, and the formula returns Infinity.
C10_InfinityReached ==
  /\ fnOut.op = "allometry"
  /\ fnD = PosInf
  /\ fnOut.out.tookLn
  /\ fnOut.out.ret = PosInf

\* The default dry-region formula written as a custom expression.
C24_Expr == "exp(-1.996 + 2.32*ln(D))"

\* C24, as the code has it: the custom expression "exp(-1.996 + 2.32*ln(D))"
\* passes both guards at every positive D and is evaluated without an
\* exception; where the default dry-region formula's value at D is finite (in
\* particular at D = 10) the evaluator returns that same value, and where it
\* is not finite the evaluator returns NaN.
C24_SameWhereFinite ==
  (fnOut.op = "eval" /\ fnExpr = C24_Expr /\ Lt(Fin(0), fnD)) =>
    /\ fnOut.out.stage \in {"value", "notfinite"}
    /\ IF isFinite(defaultAllometryBiomassKg(fnD, "dry"))
         THEN /\ fnOut.out.stage = "value"
              /\ fnOut.out.ret = defaultAllometryBiomassKg(fnD, "dry")
         ELSE isNaN(fnOut.out.ret)

\* C24, as stated: the expression is accepted and, at every positive D,
\* evaluates to the value of the default dry-region formula at that D.
C24_SameEverywhere ==
  (fnOut.op = "eval" /\ fnExpr = C24_Expr /\ Lt(Fin(0), fnD)) =>
    /\ fnOut.out.stage = "value"
    /\ fnOut.out.ret = defaultAllometryBiomassKg(fnD, "dry")

\* At D = 10 the expression is evaluated and returns the default formula's
\* value, about 28 kg.
C24_Witness ==
  /\ fnOut.op = "eval" /\ fnExpr = C24_Expr /\ fnD = Int2Num(10)
  /\ fnOut.out.stage = "value"
  /\ fnOut.out.ret = defaultAllometryBiomassKg(Int2Num(10), "dry")
  /\ Lt(Int2Num(28), fnOut.out.ret) /\ Lt(fnOut.out.ret, Int2Num(29))

\* At D = Infinity the default formula gives Infinity and the evaluator NaN.
C24_WitnessNotFinite ==
  /\ fnOut.op = "eval" /\ fnExpr = C24_Expr /\ fnD = PosInf
  /\ fnOut.out.stage = "notfinite" /\ isNaN(fnOut.out.ret)
  /\ defaultAllometryBiomassKg(fnD, "dry") = PosInf

=============================================================================
